---------------------------- MODULE Spec2Model ----------------------------
(***************************************************************************)
(* A model of the format converters of the PostgreSQL data converter:      *)
(* src/src/converters/{base,json,csv,mongodb,sql}_converter.py.            *)
(*                                                                         *)
(* Text (str) is a sequence of one-character strings.  A Python value is   *)
(* a record [t, n, m, s, e, b]: t the class name, n/m integer payloads, s   *)
(* a text payload, e the elements of a list or dict, b the bytes.  A row   *)
(* (dict) is a sequence of <<key, value>> pairs with pairwise different    *)
(* keys, in insertion order.                                               *)
(***************************************************************************)
EXTENDS Integers, Sequences, FiniteSets, TLC

(***************************************************************************)
(* Bounds of the model.                                                    *)
(***************************************************************************)
MaxNameLen == 3
MaxStrLen == 2
MaxRows == 2
MaxSqlRows == 3

(***************************************************************************)
(* Text helpers.                                                           *)
(***************************************************************************)
RECURSIVE SeqsUpTo(_, _)
SeqsUpTo(S, n) ==
    IF n = 0 THEN { <<>> }
    ELSE LET shorter == SeqsUpTo(S, n - 1)
         IN  shorter \cup { Append(w, c) : w \in shorter, c \in S }

Repeat(c, n) == [i \in 1..n |-> c]

\* s.count(c)
Count(s, c) == Cardinality({ i \in 1..Len(s) : s[i] = c })

RECURSIVE Join(_, _)
Join(parts, sep) ==
    IF parts = <<>> THEN <<>>
    ELSE IF Len(parts) = 1 THEN Head(parts)
    ELSE Head(parts) \o sep \o Join(Tail(parts), sep)

Digits == <<"0", "1", "2", "3", "4", "5", "6", "7", "8", "9">>

\* str.isdigit() of one character (the ASCII digits of the model's alphabet)
IsDigit(c) == \E i \in 1..10 : Digits[i] = c

RECURSIVE NatStr(_)
NatStr(n) ==
    IF n < 10 THEN <<Digits[n + 1]>>
    ELSE NatStr(n \div 10) \o <<Digits[(n % 10) + 1]>>

\* str(n) of an int
IntStr(n) == IF n < 0 THEN <<"-">> \o NatStr(0 - n) ELSE NatStr(n)

\* a natural number as exactly w digits (the %02d / %04d of isoformat)
RECURSIVE Padded(_, _)
Padded(n, w) ==
    IF w = 0 THEN <<>>
    ELSE Padded(n \div 10, w - 1) \o <<Digits[(n % 10) + 1]>>

\* s.replace(old, new) for a one-character old, by halves
RECURSIVE ReplaceFrom(_, _, _)
ReplaceFrom(s, old, new) ==
    IF s = <<>> THEN <<>>
    ELSE IF Len(s) = 1 THEN (IF s[1] = old THEN new ELSE s)
    ELSE LET half == Len(s) \div 2
         IN  ReplaceFrom(SubSeq(s, 1, half), old, new)
             \o ReplaceFrom(SubSeq(s, half + 1, Len(s)), old, new)

Replace(s, old, new) == ReplaceFrom(s, old, new)

(***************************************************************************)
(* SQLConverter._sanitize_column_name                                      *)
(***************************************************************************)
\* the characters replaced after the space, in the order of the source
ProblemChars ==
    <<"(", ")", ".", ",", ";", ":", "!", "?", "%", "$", "#", "@", "*", "+",
      "/", "\\">>

Replaced == { " " } \cup { ProblemChars[i] : i \in 1..Len(ProblemChars) }

RECURSIVE ReplaceAll(_, _)
ReplaceAll(s, chars) ==
    IF chars = <<>> THEN s
    ELSE ReplaceAll(Replace(s, Head(chars), <<"_">>), Tail(chars))

\* the prefix added to every non-empty name, the digit test left out
SanitizeAlwaysPrefix(column_name) ==
    LET sanitized == ReplaceAll(Replace(column_name, " ", <<"_">>), ProblemChars)
    IN  IF sanitized # <<>> THEN <<"c", "_">> \o sanitized ELSE sanitized

\* the c_ prefix left out
SanitizeNoPrefix(column_name) ==
    ReplaceAll(Replace(column_name, " ", <<"_">>), ProblemChars)

SanitizeColumnName(column_name) ==
    LET sanitized == ReplaceAll(Replace(column_name, " ", <<"_">>), ProblemChars)
    IN  IF sanitized # <<>> /\ IsDigit(sanitized[1])
        THEN <<"c", "_">> \o sanitized
        ELSE sanitized


(***************************************************************************)
(* Python values.                                                          *)
(***************************************************************************)
Val(t, n, m, s, e, b) == [t |-> t, n |-> n, m |-> m, s |-> s, e |-> e, b |-> b]

PyNone == Val("NoneType", 0, 0, <<>>, <<>>, <<>>)
PyInt(n) == Val("int", n, 0, <<>>, <<>>, <<>>)
PyBool(x) == Val("bool", IF x THEN 1 ELSE 0, 0, <<>>, <<>>, <<>>)
\* a float, s its repr()
PyFloat(s) == Val("float", 0, 0, s, <<>>, <<>>)
\* Decimal with unscaled value n and m fraction digits: Decimal("9.99") is (999, 2)
PyDecimal(n, m) == Val("Decimal", n, m, <<>>, <<>>, <<>>)
\* datetime with date n = yyyymmdd and time m = hhmmss, date with n = yyyymmdd
PyDatetime(n, m) == Val("datetime", n, m, <<>>, <<>>, <<>>)
PyDate(n) == Val("date", n, 0, <<>>, <<>>, <<>>)
\* a list of str, and a dict of str to str given as <<k1, v1, k2, v2, ...>>
PyList(e) == Val("list", 0, 0, <<>>, e, <<>>)
PyDict(e) == Val("dict", 0, 0, <<>>, e, <<>>)
PyBytes(b) == Val("bytes", 0, 0, <<>>, <<>>, b)
PyStr(s) == Val("str", 0, 0, s, <<>>, <<>>)
\* an object of any other class (uuid.UUID, ...), s its str()
PyOther(s) == Val("UUID", 0, 0, s, <<>>, <<>>)

\* isinstance(value, classes): bool is a subclass of int, datetime of date
IsInstance(value, classes) ==
    \/ value.t \in classes
    \/ value.t = "bool" /\ "int" \in classes
    \/ value.t = "datetime" /\ "date" \in classes

Pow10(k) == IF k = 0 THEN 1 ELSE IF k = 1 THEN 10 ELSE IF k = 2 THEN 100 ELSE 1000

\* date.isoformat() and datetime.isoformat() (microsecond = 0, no tzinfo)
IsoDate(n) ==
    Padded(n \div 10000, 4) \o <<"-">> \o Padded((n \div 100) % 100, 2)
    \o <<"-">> \o Padded(n % 100, 2)

IsoTime(m) ==
    Padded(m \div 10000, 2) \o <<":">> \o Padded((m \div 100) % 100, 2)
    \o <<":">> \o Padded(m % 100, 2)

IsoFormat(value) ==
    IF value.t = "datetime" THEN IsoDate(value.n) \o <<"T">> \o IsoTime(value.m)
    ELSE IsoDate(value.n)

\* str(value)
StrOf(value) ==
    CASE value.t = "NoneType" -> <<"N", "o", "n", "e">>
      [] value.t = "int" -> IntStr(value.n)
      [] value.t = "bool" ->
            IF value.n = 1 THEN <<"T", "r", "u", "e">>
            ELSE <<"F", "a", "l", "s", "e">>
      [] value.t = "Decimal" ->
            IF value.m = 0 THEN IntStr(value.n)
            ELSE IntStr(value.n \div Pow10(value.m)) \o <<".">>
                 \o Padded(value.n % Pow10(value.m), value.m)
      [] value.t = "datetime" -> IsoDate(value.n) \o <<" ">> \o IsoTime(value.m)
      [] value.t = "date" -> IsoDate(value.n)
      [] OTHER -> value.s

Quoted(text) == <<"'">> \o text \o <<"'">>

\* json.dumps of a str: backslash and double quote are escaped, a single
\* quote is not
\* the text put between double quotes as it is
JsonStrUnescaped(s) == <<"\"">> \o s \o <<"\"">>

JsonStr(s) ==
    <<"\"">> \o Replace(Replace(s, "\\", <<"\\", "\\">>), "\"", <<"\\", "\"">>)
    \o <<"\"">>

RECURSIVE JsonItems(_)
JsonItems(e) ==
    IF e = <<>> THEN <<>>
    ELSE <<JsonStr(Head(e))>> \o JsonItems(Tail(e))

RECURSIVE JsonPairs(_)
JsonPairs(e) ==
    IF Len(e) < 2 THEN <<>>
    ELSE <<JsonStr(e[1]) \o <<":", " ">> \o JsonStr(e[2])>>
         \o JsonPairs(Tail(Tail(e)))

\* json.dumps(value) of a list of str or of a dict of str to str
JsonDumps(value) ==
    IF value.t = "dict"
    THEN <<"{">> \o Join(JsonPairs(value.e), <<",", " ">>) \o <<"}">>
    ELSE <<"[">> \o Join(JsonItems(value.e), <<",", " ">>) \o <<"]">>

HexDigits ==
    <<"0", "1", "2", "3", "4", "5", "6", "7", "8", "9", "a", "b", "c", "d",
      "e", "f">>

\* bytes.hex()
RECURSIVE Hex(_)
Hex(b) ==
    IF b = <<>> THEN <<>>
    ELSE <<HexDigits[(Head(b) \div 16) + 1], HexDigits[(Head(b) % 16) + 1]>>
         \o Hex(Tail(b))

(***************************************************************************)
(* SQLConverter.__init__, _infer_sql_type, _format_sql_value               *)
(***************************************************************************)
Absent == "<absent>"

\* self.sql_config.get('dialect', 'mysql')
\* the dialect without its default
TargetDialectAsGiven(dialect) == dialect

TargetDialect(dialect) == IF dialect = Absent THEN "mysql" ELSE dialect

MySqlFamily == { "mysql", "mariadb" }

Min(a, b) == IF a < b THEN a ELSE b
Max(a, b) == IF a > b THEN a ELSE b

\* the length of the declared VARCHAR without the cap and the floor
VarcharUncapped(value) == <<"VARCHAR(">> \o IntStr(Len(value.s) * 2) \o <<")">>

VarcharOf(value) ==
    LET length == Min(Len(value.s) * 2, 255)
    IN  <<"VARCHAR(">> \o IntStr(Max(length, 1)) \o <<")">>

JsonTypeOf(target_dialect) ==
    IF target_dialect \in MySqlFamily THEN <<"JSON">>
    ELSE IF target_dialect = "postgresql" THEN <<"JSONB">>
    ELSE <<"TEXT">>

InferSqlType(value, target_dialect) ==
    IF value.t = "NoneType" THEN <<"VARCHAR(255)">>
    ELSE IF IsInstance(value, {"int"}) THEN <<"INT">>
    ELSE IF IsInstance(value, {"float", "Decimal"}) THEN <<"DECIMAL(18, 6)">>
    ELSE IF IsInstance(value, {"bool"}) THEN <<"BOOLEAN">>
    ELSE IF IsInstance(value, {"datetime"}) THEN <<"DATETIME">>
    ELSE IF IsInstance(value, {"date"}) THEN <<"DATE">>
    ELSE IF IsInstance(value, {"dict", "list"}) THEN JsonTypeOf(target_dialect)
    ELSE IF IsInstance(value, {"bytes"}) THEN <<"BLOB">>
    ELSE IF IsInstance(value, {"str"}) THEN VarcharOf(value)
    ELSE <<"VARCHAR(255)">>

\* a quote escaped with a backslash instead of being doubled
EscapeQuotesBackslash(text) == Replace(text, "'", <<"\\", "'">>)

\* .replace("'", "''")
EscapeQuotes(text) == Replace(text, "'", <<"'", "'">>)

FormatSqlValue(value, target_dialect) ==
    IF value.t = "NoneType" THEN <<"N", "U", "L", "L">>
    ELSE IF IsInstance(value, {"int", "float", "Decimal"}) THEN StrOf(value)
    ELSE IF IsInstance(value, {"bool"})
         THEN IF target_dialect \in MySqlFamily
              THEN (IF value.n = 1 THEN <<"1">> ELSE <<"0">>)
              ELSE (IF value.n = 1 THEN <<"T", "R", "U", "E">>
                    ELSE <<"F", "A", "L", "S", "E">>)
    ELSE IF IsInstance(value, {"datetime", "date"}) THEN Quoted(IsoFormat(value))
    ELSE IF IsInstance(value, {"dict", "list"})
         THEN Quoted(EscapeQuotes(JsonDumps(value)))
    ELSE IF IsInstance(value, {"bytes"})
         THEN IF target_dialect \in MySqlFamily
              THEN <<"X">> \o Quoted(Hex(value.b))
              ELSE Quoted(<<"\\", "x">> \o Hex(value.b))
    ELSE Quoted(EscapeQuotes(StrOf(value)))

(***************************************************************************)
(* Rows: a dict is a sequence of <<key, value>> pairs in insertion order.  *)
(***************************************************************************)
KeysOf(item) == [j \in 1..Len(item) |-> item[j][1]]

ValuesOf(item) == [j \in 1..Len(item) |-> item[j][2]]

HasKey(item, key) == \E j \in 1..Len(item) : item[j][1] = key

\* item.get(key): None when the key is missing
DictGet(item, key) ==
    IF HasKey(item, key)
    THEN item[CHOOSE j \in 1..Len(item) : item[j][1] = key][2]
    ELSE PyNone

\* item[key] = value: a key already present keeps its position
DictSet(item, key, value) ==
    IF HasKey(item, key)
    THEN [j \in 1..Len(item) |->
            IF item[j][1] = key THEN <<key, value>> ELSE item[j]]
    ELSE Append(item, <<key, value>>)

(***************************************************************************)
(* SQLConverter.preprocess_data, _process_item                             *)
(***************************************************************************)
\* the keys copied as they are, without sanitization
RECURSIVE CopyItemInto(_, _)
CopyItemInto(processed_item, rest) ==
    IF rest = <<>> THEN processed_item
    ELSE CopyItemInto(DictSet(processed_item, Head(rest)[1], Head(rest)[2]),
                      Tail(rest))

RECURSIVE SqlProcessInto(_, _)
SqlProcessInto(processed_item, rest) ==
    IF rest = <<>> THEN processed_item
    ELSE SqlProcessInto(
            DictSet(processed_item, SanitizeColumnName(Head(rest)[1]),
                    Head(rest)[2]),
            Tail(rest))

\* the keys copied without sanitization
SqlProcessItemUnsanitized(item) == CopyItemInto(<<>>, item)

SqlProcessItem(item) == SqlProcessInto(<<>>, item)

SqlPreprocessData(data) == [i \in 1..Len(data) |-> SqlProcessItem(data[i])]

(***************************************************************************)
(* SQLConverter._generate_sql and the statements it emits.  A script is a  *)
(* sequence of statements; a statement keeps the column names, the column  *)
(* types and the VALUES tuples that the source joins into its text.        *)
(***************************************************************************)
Stmt(kind, table, columns, types, tuples) ==
    [kind |-> kind, table |-> table, columns |-> columns, types |-> types,
     tuples |-> tuples]

\* the columns taken from the last row
GenerateCreateTableLastRow(data, table_name, target_dialect) ==
    IF data = <<>>
    THEN Stmt("comment-no-create", table_name, <<>>, <<>>, <<>>)
    ELSE Stmt("create", table_name, KeysOf(data[Len(data)]),
              [j \in 1..Len(data[Len(data)]) |->
                  InferSqlType(data[Len(data)][j][2], target_dialect)],
              <<>>)

GenerateCreateTable(data, table_name, target_dialect) ==
    IF data = <<>>
    THEN Stmt("comment-no-create", table_name, <<>>, <<>>, <<>>)
    ELSE Stmt("create", table_name, KeysOf(data[1]),
              [j \in 1..Len(data[1]) |->
                  InferSqlType(data[1][j][2], target_dialect)],
              <<>>)

GenerateBatchInsert(data_batch, table_name, target_dialect) ==
    IF data_batch = <<>> THEN <<>>
    ELSE LET columns == KeysOf(data_batch[1])
         IN  << Stmt("insert", table_name, columns, <<>>,
                     [i \in 1..Len(data_batch) |->
                        [j \in 1..Len(columns) |->
                           FormatSqlValue(DictGet(data_batch[i], columns[j]),
                                          target_dialect)]]) >>

GenerateSingleInsert(data_item, table_name, target_dialect) ==
    LET columns == KeysOf(data_item)
    IN  Stmt("insert", table_name, columns, <<>>,
             << [j \in 1..Len(columns) |->
                   FormatSqlValue(DictGet(data_item, columns[j]),
                                  target_dialect)] >>)

\* self.sql_config.get('batch_size', 100)
DefaultBatchSize == 100

\* the configured batch size ignored
BatchSizeAlwaysDefault(sql_config) == DefaultBatchSize

BatchSizeOf(sql_config) ==
    IF sql_config.batch_size_set THEN sql_config.batch_size
    ELSE DefaultBatchSize

\* self.sql_config.get('use_batch_insert', True)
UseBatchInsert(sql_config) == sql_config.use_batch_insert

\* range(0, n, step): raises ValueError for step = 0 (see GenerateSqlRaises)
RECURSIVE RangeFrom(_, _, _)
RangeFrom(i, n, step) ==
    IF step <= 0 \/ i >= n THEN <<>>
    ELSE <<i>> \o RangeFrom(i + step, n, step)

RECURSIVE BatchInserts(_, _, _, _, _)
BatchInserts(starts, data, batch_size, table_name, target_dialect) ==
    IF starts = <<>> THEN <<>>
    ELSE GenerateBatchInsert(
            SubSeq(data, Head(starts) + 1,
                   Min(Head(starts) + batch_size, Len(data))),
            table_name, target_dialect)
         \o BatchInserts(Tail(starts), data, batch_size, table_name,
                         target_dialect)

\* range() arg 3 must not be zero
GenerateSqlRaises(data, sql_config) ==
    /\ data # <<>>
    /\ UseBatchInsert(sql_config)
    /\ BatchSizeOf(sql_config) = 0

GenerateSql(data, table_name, sql_config) ==
    LET target_dialect == TargetDialect(sql_config.dialect)
        batch_size == BatchSizeOf(sql_config)
    IN  IF data = <<>>
        THEN << Stmt("comment-no-data", table_name, <<>>, <<>>, <<>>) >>
        ELSE << GenerateCreateTable(data, table_name, target_dialect),
                Stmt("comment-inserts", table_name, <<>>, <<>>, <<>>) >>
             \o (IF UseBatchInsert(sql_config)
                 THEN BatchInserts(RangeFrom(0, Len(data), batch_size), data,
                                   batch_size, table_name, target_dialect)
                 ELSE [i \in 1..Len(data) |->
                         GenerateSingleInsert(data[i], table_name,
                                              target_dialect)])

(***************************************************************************)
(* The encoders of the file writers.                                       *)
(***************************************************************************)
\* chr() of the bytes the model uses below 128
Chr(byte) ==
    CASE byte = 39 -> "'"
      [] byte = 49 -> "1"
      [] byte = 97 -> "a"
      [] OTHER -> "?"

\* bytes.decode('utf-8') raises UnicodeDecodeError (a lone byte >= 0x80)
DecodeRaises(b) == \E i \in 1..Len(b) : b[i] >= 128

Decode(b) == [i \in 1..Len(b) |-> Chr(b[i])]

\* the fraction digits of float(Decimal): trailing zeros dropped, one kept
RECURSIVE FractionStr(_, _)
FractionStr(frac, width) ==
    IF width <= 1 THEN Padded(frac, width)
    ELSE IF frac % 10 = 0 THEN FractionStr(frac \div 10, width - 1)
    ELSE Padded(frac, width)

\* repr(float(value)) of a Decimal
DecimalFloatStr(value) ==
    IF value.m = 0 THEN IntStr(value.n) \o <<".", "0">>
    ELSE IntStr(value.n \div Pow10(value.m)) \o <<".">>
         \o FractionStr(value.n % Pow10(value.m), value.m)

\* PostgreSQLJSONEncoder: json.dump meets a value it cannot encode
JsonEncodeRaises(value) ==
    \/ value.t = "bytes" /\ DecodeRaises(value.b)
    \/ value.t \notin {"NoneType", "int", "bool", "float", "str", "list",
                       "dict", "datetime", "date", "Decimal", "bytes"}

\* PostgreSQLJSONEncoder: the JSON text of one value
JsonEncode(value) ==
    CASE value.t = "NoneType" -> <<"n", "u", "l", "l">>
      [] value.t = "bool" ->
            IF value.n = 1 THEN <<"t", "r", "u", "e">>
            ELSE <<"f", "a", "l", "s", "e">>
      [] value.t \in {"int", "float"} -> StrOf(value)
      [] value.t = "str" -> JsonStr(value.s)
      [] value.t \in {"list", "dict"} -> JsonDumps(value)
      [] value.t \in {"datetime", "date"} -> JsonStr(IsoFormat(value))
      [] value.t = "Decimal" -> DecimalFloatStr(value)
      [] value.t = "bytes" -> JsonStr(Decode(value.b))
      [] OTHER -> <<>>

\* MongoDBJSONEncoder: only a value of an unknown class cannot be encoded
MongoEncodeRaises(value) ==
    value.t \notin {"NoneType", "int", "bool", "float", "str", "list",
                    "dict", "datetime", "date", "Decimal", "bytes"}

MongoEncode(value) ==
    CASE value.t \in {"datetime", "date"} ->
            <<"{">> \o JsonStr(<<"$", "d", "a", "t", "e">>) \o <<":", " ">>
            \o JsonStr(IsoFormat(value)) \o <<"}">>
      [] value.t = "bytes" ->
            <<"{">> \o JsonStr(<<"$", "b", "i", "n", "a", "r", "y">>)
            \o <<":", " ">> \o JsonStr(Hex(value.b)) \o <<",", " ">>
            \o JsonStr(<<"$", "t", "y", "p", "e">>) \o <<":", " ">>
            \o JsonStr(<<"0", "0">>) \o <<"}">>
      [] OTHER -> JsonEncode(value)

(***************************************************************************)
(* preprocess_data / _process_item of the JSON, CSV and MongoDB converters *)
(***************************************************************************)
JsonProcessItem(item) == CopyItemInto(<<>>, item)

JsonPreprocessData(data) == [i \in 1..Len(data) |-> JsonProcessItem(data[i])]

\* str(value) of a list of str or a dict of str to str
ReprStr(s) == Quoted(Replace(s, "\\", <<"\\", "\\">>))

RECURSIVE ReprItems(_)
ReprItems(e) ==
    IF e = <<>> THEN <<>> ELSE <<ReprStr(Head(e))>> \o ReprItems(Tail(e))

RECURSIVE ReprPairs(_)
ReprPairs(e) ==
    IF Len(e) < 2 THEN <<>>
    ELSE <<ReprStr(e[1]) \o <<":", " ">> \o ReprStr(e[2])>>
         \o ReprPairs(Tail(Tail(e)))

ReprOf(value) ==
    IF value.t = "dict"
    THEN <<"{">> \o Join(ReprPairs(value.e), <<",", " ">>) \o <<"}">>
    ELSE <<"[">> \o Join(ReprItems(value.e), <<",", " ">>) \o <<"]">>

CsvProcessValue(value) ==
    IF value.t = "NoneType" THEN PyStr(<<>>)
    ELSE IF IsInstance(value, {"dict", "list"}) THEN PyStr(ReprOf(value))
    ELSE IF IsInstance(value, {"datetime", "date"}) THEN PyStr(IsoFormat(value))
    ELSE IF IsInstance(value, {"Decimal"}) THEN PyFloat(DecimalFloatStr(value))
    ELSE IF IsInstance(value, {"bytes"}) THEN PyStr(Hex(value.b))
    ELSE value

RECURSIVE CsvProcessInto(_, _)
CsvProcessInto(processed_item, rest) ==
    IF rest = <<>> THEN processed_item
    ELSE CsvProcessInto(
            DictSet(processed_item, Head(rest)[1],
                    CsvProcessValue(Head(rest)[2])),
            Tail(rest))

CsvProcessItem(item) == CsvProcessInto(<<>>, item)

CsvPreprocessData(data) == [i \in 1..Len(data) |-> CsvProcessItem(data[i])]

\* key[0] of an empty key raises IndexError; a None value is handled first
MongoProcessRaises(item) ==
    \E j \in 1..Len(item) : item[j][2].t # "NoneType" /\ item[j][1] = <<>>

MongoNewKey(key) ==
    IF IsDigit(key[1]) \/ Count(key, ".") > 0
    THEN (IF IsDigit(key[1]) THEN <<"_">> \o key
          ELSE Replace(key, ".", <<"_">>))
    ELSE key

RECURSIVE MongoProcessInto(_, _)
MongoProcessInto(processed_item, rest) ==
    IF rest = <<>> THEN processed_item
    ELSE MongoProcessInto(
            IF Head(rest)[2].t = "NoneType"
            THEN DictSet(processed_item, Head(rest)[1], PyNone)
            ELSE DictSet(processed_item, MongoNewKey(Head(rest)[1]),
                         Head(rest)[2]),
            Tail(rest))

MongoProcessItem(item) == MongoProcessInto(<<>>, item)

MongoPreprocessData(data) ==
    [i \in 1..Len(data) |-> MongoProcessItem(data[i])]

(***************************************************************************)
(* BaseConverter.validate_data, CSVConverter.validate_data.  The dataset   *)
(* argument is [cls, items]: its class and its elements; an element is     *)
(* [isdict, item].                                                         *)
(***************************************************************************)
\* the emptiness test left out
ValidateDataNoEmptyTest(data) ==
    /\ data.cls = "list"
    /\ \A i \in 1..Len(data.items) : data.items[i].isdict

ValidateData(data) ==
    /\ ~(data.cls = "NoneType" \/ data.items = <<>>)
    /\ data.cls = "list"
    /\ \A i \in 1..Len(data.items) : data.items[i].isdict

\* the CSV check of the key sets only logs a warning
CsvValidateData(data) == ValidateData(data)

RowsOf(data) == [i \in 1..Len(data.items) |-> data.items[i].item]

(***************************************************************************)
(* The chunks the file writers write.  A chunk is a statement record: a    *)
(* JSON or CSV row is one tuple of encoded values under its column names.  *)
(***************************************************************************)
\* json.dump(processed_data, ...): one chunk a row, encoded as it is written
JsonChunks(processed, converter_name) ==
    [i \in 1..Len(processed) |->
        IF \E j \in 1..Len(processed[i]) :
              IF converter_name = "mongodb"
              THEN MongoEncodeRaises(processed[i][j][2])
              ELSE JsonEncodeRaises(processed[i][j][2])
        THEN Stmt("unencodable", "", KeysOf(processed[i]), <<>>, <<>>)
        ELSE Stmt("row", "", KeysOf(processed[i]), <<>>,
                  << [j \in 1..Len(processed[i]) |->
                        IF converter_name = "mongodb"
                        THEN MongoEncode(processed[i][j][2])
                        ELSE JsonEncode(processed[i][j][2])] >>)]

\* pd.DataFrame(list of dicts): the columns are the keys of all the rows,
\* in the order of their first appearance
RECURSIVE FrameColumns(_, _)
FrameColumns(columns, rows) ==
    IF rows = <<>> THEN columns
    ELSE FrameColumns(
            columns \o SelectSeq(KeysOf(Head(rows)),
                                 LAMBDA k : \A j \in 1..Len(columns) :
                                                columns[j] # k),
            Tail(rows))

\* the column of a DataFrame is float64: its values are integers and
\* floats (no bool, no text) and one of them is a float or is missing
IsFloatColumn(rows, column) ==
    /\ \A i \in 1..Len(rows) :
          HasKey(rows[i], column)
          => DictGet(rows[i], column).t \in {"int", "float"}
    /\ \E i \in 1..Len(rows) :
          \/ ~HasKey(rows[i], column)
          \/ DictGet(rows[i], column).t = "float"

\* the text of a cell: an integer of a float64 column is written as a float
CellText(rows, column, v) ==
    IF v.t = "int" /\ IsFloatColumn(rows, column)
    THEN IntStr(v.n) \o <<".", "0">>
    ELSE StrOf(v)

\* DataFrame.to_csv(index=False): the header, then a line a row; a missing
\* key is NaN and is written as an empty cell
CsvChunks(processed) ==
    LET columns == FrameColumns(<<>>, processed)
    IN  << Stmt("header", "", columns, <<>>, <<>>) >>
        \o [i \in 1..Len(processed) |->
              Stmt("row", "", columns, <<>>,
                   << [j \in 1..Len(columns) |->
                         IF HasKey(processed[i], columns[j])
                         THEN CellText(processed, columns[j],
                                       DictGet(processed[i], columns[j]))
                         ELSE <<>>] >>)]

\* the threshold and the size of the batches of _insert_to_mongodb
BatchThreshold == 1000
MongoBatchSize == 500

RECURSIVE Slices(_, _, _)
Slices(starts, data, size) ==
    IF starts = <<>> THEN <<>>
    ELSE << SubSeq(data, Head(starts) + 1, Min(Head(starts) + size, Len(data))) >>
         \o Slices(Tail(starts), data, size)

\* every dataset inserted by one call
MongoBatchesAllAtOnce(data) == << data >>

MongoBatches(data) ==
    IF Len(data) > BatchThreshold
    THEN Slices(RangeFrom(0, Len(data), MongoBatchSize), data, MongoBatchSize)
    ELSE << data >>

(***************************************************************************)
(* State.                                                                  *)
(***************************************************************************)
VARIABLES
    converter,      \* the converter convert() is called on
    config,         \* its configuration
    data,           \* the data argument
    output_path,    \* the output_path argument
    pc,             \* the position of the call
    result,         \* what convert() returned
    processed_data, \* the local processed_data
    pending,        \* the chunks (file) or batches (store) not yet written
    dirs,           \* the directories that exist
    file,           \* the file at output_path
    connected,      \* a MongoClient was created
    store,          \* the batches insert_many has inserted
    io_log,         \* the calls made on the file system and the store
    column_name,    \* the argument of _sanitize_column_name
    sanitized,      \* its result
    resanitized,    \* the result of sanitizing the result
    script,         \* the SQL script of a row with that column
    san_pc,
    value,          \* the argument of _infer_sql_type / _format_sql_value
    dialect,        \* the configured sql.dialect
    sql_type,       \* the inferred column type
    sql_literal,    \* the formatted value
    val_pc,
    main_pc,        \* the position of main()
    main_log,       \* the messages main() has logged
    query_to_execute, \* the local query_to_execute of main()
    exit_status     \* the exit status of the process, once it has ended

convertVars ==
    <<converter, config, data, output_path, pc, result, processed_data,
      pending, dirs, file, connected, store, io_log>>

sanVars == <<column_name, sanitized, resanitized, script, san_pc>>

valVars == <<value, dialect, sql_type, sql_literal, val_pc>>

mainVars == <<main_pc, main_log, query_to_execute, exit_status>>

vars == <<convertVars, sanVars, valVars, mainVars>>

(***************************************************************************)
(* The inputs.                                                             *)
(***************************************************************************)
SqlConfig(d, set, size, batch, table) ==
    [dialect |-> d, batch_size_set |-> set, batch_size |-> size,
     use_batch_insert |-> batch, table_name |-> table, mongo_set |-> TRUE]

DefaultConfig == SqlConfig(Absent, FALSE, 0, TRUE, Absent)

NameAlphabet == { "c", "1", " ", ".", "_" }

\* the column names: every name up to MaxNameLen over the alphabet, and
\* every replaced character alone and in front of a digit
ColumnNames ==
    SeqsUpTo(NameAlphabet, MaxNameLen)
    \cup { <<c>> : c \in Replaced } \cup { <<c, "1">> : c \in Replaced }

ValueAlphabet == { "a", "'", "\\", "\"" }

OBrien == <<"O", "'", "B", "r", "i", "e", "n">>

IdKey == <<"i", "d">>

\* the texts: every text up to MaxStrLen over the alphabet, O'Brien, and
\* texts around the length where the declared VARCHAR is capped
Texts ==
    SeqsUpTo(ValueAlphabet, MaxStrLen) \cup { OBrien }
    \cup { Repeat("a", k) : k \in {127, 128, 200} }

ShortTexts == SeqsUpTo(ValueAlphabet, MaxStrLen)

Values ==
    { PyNone, PyBool(TRUE), PyBool(FALSE), PyInt(0), PyInt(42), PyInt(0 - 7),
      PyFloat(<<"1", ".", "5">>), PyDecimal(999, 2), PyDecimal(5, 0),
      PyDatetime(20230115, 103000), PyDate(20230115), PyList(<<>>),
      PyBytes(<<>>), PyBytes(<<97, 255>>) }
    \cup { PyStr(s) : s \in Texts }
    \cup { PyOther(s) : s \in ShortTexts }
    \cup { PyList(<<s>>) : s \in ShortTexts }
    \cup { PyList(<<s, s>>) : s \in ShortTexts }
    \cup { PyDict(<<k, s>>) : k \in { <<"k">>, <<"'">> }, s \in ShortTexts }

Dialects == { Absent, "mysql", "mariadb", "postgresql", "sqlite", "unknown" }

IdleConvert ==
    /\ converter = "none"
    /\ config = DefaultConfig
    /\ data = [cls |-> "NoneType", items |-> <<>>]
    /\ output_path = [dirname |-> "", basename |-> "", scheme |-> ""]
    /\ pc = "idle"
    /\ result = "none"
    /\ processed_data = <<>>
    /\ pending = <<>>
    /\ dirs = {}
    /\ file = [exists |-> FALSE, chunks |-> <<>>, complete |-> FALSE]
    /\ connected = FALSE
    /\ store = <<>>
    /\ io_log = <<>>

IdleSan ==
    /\ column_name = <<>>
    /\ sanitized = <<>>
    /\ resanitized = <<>>
    /\ script = <<>>
    /\ san_pc = "idle"

IdleVal ==
    /\ value = PyNone
    /\ dialect = Absent
    /\ sql_type = <<>>
    /\ sql_literal = <<>>
    /\ val_pc = "idle"

\* convert() called directly, not through main()
IdleMain ==
    /\ main_pc = "idle"
    /\ main_log = <<>>
    /\ query_to_execute = "None"
    /\ exit_status = "running"

(***************************************************************************)
(* SpecSan: _sanitize_column_name applied to a column name, applied again  *)
(* to its result, and the script generated for a row with that column.     *)
(***************************************************************************)
InitSan ==
    /\ IdleConvert
    /\ IdleVal
    /\ IdleMain
    /\ column_name \in ColumnNames
    /\ sanitized = <<>>
    /\ resanitized = <<>>
    /\ script = <<>>
    /\ san_pc = "start"

Sanitize ==
    /\ san_pc = "start"
    /\ sanitized' = SanitizeColumnName(column_name)
    /\ san_pc' = "sanitized"
    /\ UNCHANGED <<column_name, resanitized, script, convertVars, valVars, mainVars>>

Resanitize ==
    /\ san_pc = "sanitized"
    /\ resanitized' = SanitizeColumnName(sanitized)
    /\ san_pc' = "resanitized"
    /\ UNCHANGED <<column_name, sanitized, script, convertVars, valVars, mainVars>>

\* preprocess_data and _generate_sql of the one-row dataset
\* [{column_name: 1, "id": 2}], with and without batch insert
GenerateScript ==
    /\ san_pc = "resanitized"
    /\ \E batch \in BOOLEAN :
          script' = GenerateSql(
                       SqlPreprocessData(
                          << << <<column_name, PyInt(1)>>, <<IdKey, PyInt(2)>> >> >>),
                       "t", SqlConfig(Absent, FALSE, 0, batch, "t"))
    /\ san_pc' = "generated"
    /\ UNCHANGED <<column_name, sanitized, resanitized, convertVars, valVars, mainVars>>

NextSan == Sanitize \/ Resanitize \/ GenerateScript

SpecSan == InitSan /\ [][NextSan]_vars

(***************************************************************************)
(* SpecVal: _infer_sql_type and _format_sql_value applied to a value under *)
(* a configured dialect.                                                   *)
(***************************************************************************)
InitVal ==
    /\ IdleConvert
    /\ IdleSan
    /\ IdleMain
    /\ value \in Values
    /\ dialect \in Dialects
    /\ sql_type = <<>>
    /\ sql_literal = <<>>
    /\ val_pc = "start"

InferType ==
    /\ val_pc = "start"
    /\ sql_type' = InferSqlType(value, TargetDialect(dialect))
    /\ val_pc' = "typed"
    /\ UNCHANGED <<value, dialect, sql_literal, convertVars, sanVars,
                 mainVars>>

FormatValue ==
    /\ val_pc = "typed"
    /\ sql_literal' = FormatSqlValue(value, TargetDialect(dialect))
    /\ val_pc' = "formatted"
    /\ UNCHANGED <<value, dialect, sql_type, convertVars, sanVars,
                 mainVars>>

NextVal == InferType \/ FormatValue

SpecVal == InitVal /\ [][NextVal]_vars

(***************************************************************************)
(* Spec: one call convert(data, output_path) of one converter, step by     *)
(* step, against a file system and a document store that may fail.         *)
(***************************************************************************)
NameKey == <<"a", " ", "b">>

RowPlain == << <<IdKey, PyInt(1)>>, <<NameKey, PyStr(<<"O", "'", "B">>)>> >>
\* a null value and a key the first row does not have
RowNull == << <<IdKey, PyNone>>, <<<<"2", "x">>, PyBool(TRUE)>> >>
\* bytes that are not UTF-8
RowBytes == << <<IdKey, PyInt(2)>>, <<NameKey, PyBytes(<<255>>)>> >>
\* an empty key
RowEmptyKey == << <<<<>>, PyInt(3)>> >>

DictElement(item) == [isdict |-> TRUE, item |-> item]
\* an element that is not a dict (a number, a tuple, a key of a dict)
NonDict == [isdict |-> FALSE, item |-> <<>>]

Elements ==
    { DictElement(r) : r \in {RowPlain, RowNull, RowBytes, RowEmptyKey} }
    \cup { NonDict }

\* the data arguments: every list of up to MaxRows elements, None, a tuple
\* of rows, an empty dict and a dict (iterating it yields its keys)
Datasets ==
    { [cls |-> "list", items |-> s] : s \in SeqsUpTo(Elements, MaxRows) }
    \cup { [cls |-> "NoneType", items |-> <<>>],
           [cls |-> "tuple", items |-> <<DictElement(RowPlain)>>],
           [cls |-> "dict", items |-> <<>>],
           [cls |-> "dict", items |-> <<NonDict>>] }

\* out/data with out present, new/data with new missing, data in the
\* current directory, and mongodb://localhost:27017/
Sinks ==
    { [dirname |-> "out", basename |-> "data", scheme |-> ""],
      [dirname |-> "new", basename |-> "data", scheme |-> ""],
      [dirname |-> "", basename |-> "data", scheme |-> ""],
      [dirname |-> "mongodb://localhost:27017", basename |-> "", scheme |-> "mongodb"] }

\* a sink is [dirname, basename, scheme]: os.path.dirname and
\* os.path.basename of the path and the text in front of its "://", if any.
\* The path has a scheme:// prefix, whatever the scheme
HasSchemePrefix(path) == path.scheme # ""

\* output_path.startswith('mongodb://')
StartsWithMongodb(path) == path.scheme = "mongodb"

InitialDirs == { "out" }

NoFile == [exists |-> FALSE, chunks |-> <<>>, complete |-> FALSE]
OldFile ==
    [exists |-> TRUE, chunks |-> << Stmt("old", "", <<>>, <<>>, <<>>) >>,
     complete |-> TRUE]

SqlConfigs ==
    { SqlConfig(d, b[1], b[2], b[3], Absent) :
        d \in { Absent, "postgresql" },
        b \in { <<FALSE, 0, TRUE>>, <<TRUE, 0 - 1, TRUE>>, <<TRUE, 0, TRUE>>,
                <<TRUE, 1, TRUE>>, <<TRUE, 2, TRUE>>, <<FALSE, 0, FALSE>> } }

\* the configuration sections the converter reads
ConfigsOf(converter_name) ==
    IF converter_name = "sql" THEN SqlConfigs
    ELSE IF converter_name = "mongodb"
    THEN { DefaultConfig, [DefaultConfig EXCEPT !.mongo_set = FALSE] }
    ELSE { DefaultConfig }

Init ==
    /\ IdleSan
    /\ IdleVal
    /\ IdleMain
    /\ converter \in { "json", "csv", "mongodb", "sql" }
    /\ config \in ConfigsOf(converter)
    /\ data \in Datasets
    /\ output_path \in Sinks
    /\ pc = "call"
    /\ result = "none"
    /\ processed_data = <<>>
    /\ pending = <<>>
    /\ dirs = InitialDirs
    /\ file \in (IF output_path.basename # ""
                    /\ output_path.dirname \in InitialDirs \cup { "" }
                 THEN { NoFile, OldFile } ELSE { NoFile })
    /\ connected = FALSE
    /\ store = <<>>
    /\ io_log = <<>>

\* the try block that starts after validation left open until after the
\* preprocessing
InTryAfterPreprocess(stage) == stage \notin { "call", "preprocess" }

\* the stages of convert() inside its try ... except Exception
InTry(stage) == stage # "call"

\* an exception raised at the current stage: caught by except Exception,
\* logged and turned into return False, or propagated to the caller
Raise ==
    IF InTry(pc)
    THEN pc' = "returned" /\ result' = "False"
    ELSE pc' = "raised" /\ result' = result

Return(b) == pc' = "returned" /\ result' = b

\* if not self.validate_data(data): return False
Validate ==
    /\ pc = "call"
    /\ IF (IF converter = "csv" THEN CsvValidateData(data) ELSE ValidateData(data))
       THEN pc' = "preprocess" /\ result' = result
       ELSE Return("False")
    /\ UNCHANGED <<converter, config, data, output_path, processed_data,
                   pending, dirs, file, connected, store, io_log, sanVars,
                   valVars, mainVars>>

\* the writes going to the input row itself
ProcessedItemIsInput(item) == FALSE

\* processed_item = {}: the dict _process_item writes to is a new object
ProcessedItemIsNew(item) == TRUE

\* the input row once _process_item has returned: the writes
\* processed_item[key] = value show in it only if it is the dict written to
InputAfterProcess(item, processed_item) ==
    IF ProcessedItemIsNew(item) THEN item ELSE processed_item

\* processed_data = self.preprocess_data(data), and for the MongoDB
\* converter the choice of the sink by output_path.startswith('mongodb://')
Preprocess ==
    /\ pc = "preprocess"
    /\ IF converter = "mongodb"
          /\ \E i \in 1..Len(data.items) : MongoProcessRaises(data.items[i].item)
       THEN Raise /\ UNCHANGED processed_data
       ELSE /\ processed_data' =
                 CASE converter = "json" -> JsonPreprocessData(RowsOf(data))
                   [] converter = "csv" -> CsvPreprocessData(RowsOf(data))
                   [] converter = "mongodb" -> MongoPreprocessData(RowsOf(data))
                   [] converter = "sql" -> SqlPreprocessData(RowsOf(data))
            /\ pc' = IF converter = "mongodb" /\ StartsWithMongodb(output_path)
                     THEN "connect" ELSE "makedirs"
            /\ result' = result
    /\ data' = IF pc' = "returned" THEN data
               ELSE [data EXCEPT !.items =
                       [i \in 1..Len(data.items) |->
                           DictElement(InputAfterProcess(data.items[i].item,
                                                         processed_data'[i]))]]
    /\ UNCHANGED <<converter, config, output_path, pending, dirs, file,
                   connected, store, io_log, sanVars, valVars, mainVars>>

\* os.makedirs(os.path.dirname(output_path), exist_ok=True)
Makedirs ==
    /\ pc = "makedirs"
    /\ io_log' = Append(io_log, "makedirs")
    /\ \/ /\ output_path.dirname = ""
          /\ Raise
          /\ UNCHANGED dirs
       \/ /\ output_path.dirname \in dirs
          /\ pc' = (IF converter \in {"sql", "csv"} THEN "generate" ELSE "open")
          /\ UNCHANGED <<dirs, result>>
       \/ /\ output_path.dirname # ""
          /\ output_path.dirname \notin dirs
          /\ \/ /\ dirs' = dirs \cup { output_path.dirname }
                /\ pc' = (IF converter \in {"sql", "csv"} THEN "generate"
                          ELSE "open")
                /\ result' = result
             \/ Raise /\ UNCHANGED dirs
    /\ UNCHANGED <<converter, config, data, output_path, processed_data,
                   pending, file, connected, store, sanVars, valVars, mainVars>>

\* os.path.splitext(os.path.basename(output_path))[0] unless configured
TableNameOf(sql_config, path) ==
    IF sql_config.table_name = Absent \/ sql_config.table_name = ""
    THEN path.basename ELSE sql_config.table_name

\* sql_statements = self._generate_sql(...), df = pd.DataFrame(...)
Generate ==
    /\ pc = "generate"
    /\ IF converter = "sql" /\ GenerateSqlRaises(processed_data, config)
       THEN Raise /\ UNCHANGED pending
       ELSE /\ pending' =
                 IF converter = "sql"
                 THEN GenerateSql(processed_data,
                                  TableNameOf(config, output_path), config)
                 ELSE CsvChunks(processed_data)
            /\ pc' = "open"
            /\ result' = result
    /\ UNCHANGED <<converter, config, data, output_path, processed_data,
                   dirs, file, connected, store, io_log, sanVars, valVars, mainVars>>

\* open(output_path, 'w'): the file is created or truncated
Open ==
    /\ pc = "open"
    /\ io_log' = Append(io_log, "open")
    /\ \/ /\ output_path.basename # ""
          /\ file' = [exists |-> TRUE, chunks |-> <<>>, complete |-> FALSE]
          /\ pending' = (IF converter \in {"json", "mongodb"}
                         THEN JsonChunks(processed_data, converter)
                         ELSE pending)
          /\ pc' = "write"
          /\ result' = result
       \/ Raise /\ UNCHANGED <<file, pending>>
    /\ UNCHANGED <<converter, config, data, output_path, processed_data,
                   dirs, connected, store, sanVars, valVars, mainVars>>

\* one chunk reaches the file, or encoding it or writing it raises
WriteChunk ==
    /\ pc = "write"
    /\ pending # <<>>
    /\ io_log' = Append(io_log, "write")
    /\ \/ /\ Head(pending).kind # "unencodable"
          /\ file' = [file EXCEPT !.chunks = Append(@, Head(pending))]
          /\ pending' = Tail(pending)
          /\ UNCHANGED <<pc, result>>
       \/ Raise /\ UNCHANGED <<file, pending>>
    /\ UNCHANGED <<converter, config, data, output_path, processed_data,
                   dirs, connected, store, sanVars, valVars, mainVars>>

\* the end of the with block and return True
CloseFile ==
    /\ pc = "write"
    /\ pending = <<>>
    /\ io_log' = Append(io_log, "close")
    /\ \/ file' = [file EXCEPT !.complete = TRUE] /\ Return("True")
       \/ Raise /\ UNCHANGED file
    /\ UNCHANGED <<converter, config, data, output_path, processed_data,
                   pending, dirs, connected, store, sanVars, valVars, mainVars>>

\* client = MongoClient(self.mongo_config['uri']) and the collection
Connect ==
    /\ pc = "connect"
    /\ IF config.mongo_set
       THEN /\ connected' = TRUE
            /\ io_log' = Append(io_log, "connect")
            /\ pending' = MongoBatches(processed_data)
            /\ pc' = "insert"
            /\ result' = result
       ELSE Raise /\ UNCHANGED <<connected, io_log, pending>>
    /\ UNCHANGED <<converter, config, data, output_path, processed_data,
                   dirs, file, store, sanVars, valVars, mainVars>>

\* collection.insert_many(batch)
InsertBatch ==
    /\ pc = "insert"
    /\ pending # <<>>
    /\ io_log' = Append(io_log, "insert_many")
    /\ \/ /\ store' = Append(store, Head(pending))
          /\ pending' = Tail(pending)
          /\ UNCHANGED <<pc, result>>
       \/ Raise /\ UNCHANGED <<store, pending>>
    /\ UNCHANGED <<converter, config, data, output_path, processed_data,
                   dirs, file, connected, sanVars, valVars, mainVars>>

\* return True after the last batch
InsertDone ==
    /\ pc = "insert"
    /\ pending = <<>>
    /\ Return("True")
    /\ UNCHANGED <<converter, config, data, output_path, processed_data,
                   pending, dirs, file, connected, store, io_log, sanVars,
                   valVars, mainVars>>

Next ==
    \/ Validate
    \/ Preprocess
    \/ Makedirs
    \/ Generate
    \/ Open
    \/ WriteChunk
    \/ CloseFile
    \/ Connect
    \/ InsertBatch
    \/ InsertDone

Spec == Init /\ [][Next]_vars

(***************************************************************************)
(* Properties of convert() (Spec).                                         *)
(***************************************************************************)
\* what validation rejects: not a list, empty, or an element not a dict
InvalidDataset(d) ==
    \/ d.cls # "list"
    \/ d.items = <<>>
    \/ \E i \in 1..Len(d.items) : ~d.items[i].isdict

\* the steps a call has left at most: the stages ahead and the chunks or
\* batches not yet written
StepsLeft ==
    (CASE pc = "call" -> 6
       [] pc = "preprocess" -> 5
       [] pc \in {"makedirs", "connect"} -> 4
       [] pc = "generate" -> 3
       [] pc = "open" -> 2
       [] pc \in {"write", "insert"} -> 1
       [] OTHER -> 0) * 1000 + Len(pending)

C2_EmptyDatasetSucceeds ==
    (/\ pc = "returned"
     /\ data = [cls |-> "list", items |-> <<>>]
     /\ output_path.dirname \in InitialDirs)
    => result = "True"

RECURSIVE RowsWritten(_)
RowsWritten(chunks) ==
    IF chunks = <<>> THEN 0
    ELSE (IF Head(chunks).kind \in {"insert", "row"}
          THEN Len(Head(chunks).tuples) ELSE 0)
         + RowsWritten(Tail(chunks))

RECURSIVE Concat(_)
Concat(batches) ==
    IF batches = <<>> THEN <<>> ELSE Head(batches) \o Concat(Tail(batches))

\* C4: convert() returns True only if the file was written completely,
\* with every row of the dataset in it, or, for the connection-string
\* sink, every batch was inserted.
C4_TrueOnlyIfComplete ==
    (pc = "returned" /\ result = "True")
    => IF converter = "mongodb" /\ StartsWithMongodb(output_path)
       THEN /\ pending = <<>>
            /\ Concat(store) = processed_data
            /\ Len(processed_data) = Len(data.items)
       ELSE /\ file.exists
            /\ file.complete
            /\ pending = <<>>
            /\ RowsWritten(file.chunks) = Len(data.items)

\* C4 fails for the negative batch sizes only: with them set aside it holds
C4_ExceptNegativeBatchSize ==
    (converter = "sql" /\ BatchSizeOf(config) < 0) \/ C4_TrueOnlyIfComplete

(***************************************************************************)
(* Properties of _format_sql_value and _infer_sql_type (SpecVal).          *)
(***************************************************************************)
\* the text between the opening and the closing quote of a literal
LiteralBody(literal) == SubSeq(literal, 2, Len(literal) - 1)

\* the content _format_sql_value quotes: json.dumps(value) of a composite,
\* str(value) of a text or of a value of any other class
LiteralContent(v) == IF v.t \in {"dict", "list"} THEN JsonDumps(v) ELSE StrOf(v)

\* every maximal run of single quotes in body has an even length
QuoteRunsEven(body) ==
    \A i \in 1..Len(body) :
        (body[i] = "'" /\ (i = Len(body) \/ body[i + 1] # "'"))
        => \E j \in 0..(i - 1) :
              /\ j = 0 \/ body[j] # "'"
              /\ \A k \in (j + 1)..i : body[k] = "'"
              /\ (i - j) % 2 = 0

NotQuote(c) == c # "'"

\* C5: a text or composite value is rendered as a SQL string literal whose
\* content has every single quote doubled: the literal opens and closes
\* with a quote, the quotes in between come in pairs (twice as many as in
\* the content, no odd run that would end the literal early), nothing else
\* is changed, and O'Brien renders as 'O''Brien'.
C5_QuotesDoubled ==
    (val_pc = "formatted" /\ value.t \in {"str", "dict", "list", "UUID"})
    => LET body == LiteralBody(sql_literal)
           content == LiteralContent(value)
       IN  /\ Len(sql_literal) >= 2
           /\ sql_literal[1] = "'"
           /\ sql_literal[Len(sql_literal)] = "'"
           /\ QuoteRunsEven(body)
           /\ Count(body, "'") = 2 * Count(content, "'")
           /\ Len(body) = Len(content) + Count(content, "'")
           /\ SelectSeq(body, NotQuote) = SelectSeq(content, NotQuote)
           /\ (value = PyStr(OBrien)
               => sql_literal = <<"'", "O", "'", "'", "B", "r", "i", "e", "n", "'">>)

C5_Witness ==
    /\ val_pc = "formatted"
    /\ value = PyList(<<<<"a", "'">>>>)
    /\ sql_literal = <<"'", "[", "\"", "a", "'", "'", "\"", "]", "'">>

\* C8: a boolean value is typed BOOLEAN by _infer_sql_type.
C8_BooleanTypedBoolean ==
    (val_pc # "start" /\ value.t = "bool") => sql_type = <<"BOOLEAN">>

\* C9: a boolean value is rendered 1 / 0 for mysql and mariadb and
\* TRUE / FALSE for every other dialect.
C9_BooleanLiteral ==
    (val_pc = "formatted" /\ value.t = "bool")
    => sql_literal =
          IF TargetDialect(dialect) \in {"mysql", "mariadb"}
          THEN (IF value.n = 1 THEN <<"1">> ELSE <<"0">>)
          ELSE (IF value.n = 1 THEN <<"T", "R", "U", "E">>
                ELSE <<"F", "A", "L", "S", "E">>)

\* the VARCHAR length the mapping gives a text of length len
VarcharLength(len) ==
    IF 2 * len < 1 THEN 1 ELSE IF 2 * len > 255 THEN 255 ELSE 2 * len

\* C10: for a value that is not a boolean _infer_sql_type returns the type
\* of the mapping: null VARCHAR(255), integer INT, float and Decimal
\* DECIMAL(18, 6), date-time DATETIME, date DATE, composite JSON / JSONB /
\* TEXT by dialect, bytes BLOB, text VARCHAR(n) with n = max(1, min(2 len,
\* 255)), any other class VARCHAR(255); it returns a type for every value.
C10_TypeMapping ==
    (val_pc # "start" /\ value.t # "bool")
    => /\ sql_type # <<>>
       /\ sql_type =
            CASE value.t = "NoneType" -> <<"VARCHAR(255)">>
              [] value.t = "int" -> <<"INT">>
              [] value.t \in {"float", "Decimal"} -> <<"DECIMAL(18, 6)">>
              [] value.t = "datetime" -> <<"DATETIME">>
              [] value.t = "date" -> <<"DATE">>
              [] value.t \in {"dict", "list"} ->
                    IF dialect \in {Absent, "mysql", "mariadb"} THEN <<"JSON">>
                    ELSE IF dialect = "postgresql" THEN <<"JSONB">>
                    ELSE <<"TEXT">>
              [] value.t = "bytes" -> <<"BLOB">>
              [] value.t = "str" ->
                    <<"VARCHAR(">> \o IntStr(VarcharLength(Len(value.s)))
                    \o <<")">>
              [] OTHER -> <<"VARCHAR(255)">>
       /\ value.t = "str"
          => /\ VarcharLength(Len(value.s)) >= 1
             /\ VarcharLength(Len(value.s)) <= 255

C10_Witness ==
    /\ val_pc = "typed"
    /\ value = PyStr(Repeat("a", 200))
    /\ sql_type = <<"VARCHAR(", "2", "5", "5", ")">>

(***************************************************************************)
(* Properties of _sanitize_column_name (SpecSan).                          *)
(***************************************************************************)
\* C6: sanitizing a sanitized column name changes nothing.
C6_SanitizeIdempotent ==
    san_pc \in {"resanitized", "generated"} => resanitized = sanitized

C6_Witness ==
    /\ san_pc = "resanitized"
    /\ Len(column_name) >= 2
    /\ column_name[1] \in Replaced
    /\ IsDigit(column_name[2])
    /\ sanitized # column_name
    /\ resanitized = sanitized

\* each replaced character turned into one underscore, the others kept
MappedName(x) == [i \in 1..Len(x) |-> IF x[i] \in Replaced THEN "_" ELSE x[i]]

IsSanitizedName(x) ==
    /\ \A i \in 1..Len(x) : x[i] \notin Replaced
    /\ x = <<>> \/ ~IsDigit(x[1])

\* C7: the sanitized name has no space and none of ( ) . , ; : ! ? % $ # @
\* * + / \, each occurrence being replaced by one underscore in place; it
\* does not begin with a digit, c_ being put in front of a name that would;
\* and the column names of the CREATE TABLE and INSERT statements generated
\* for a row are the sanitized names of its keys.
C7_SanitizedNames ==
    /\ san_pc # "start"
       => /\ IsSanitizedName(sanitized)
          /\ LET mapped == MappedName(column_name)
             IN  sanitized =
                    IF mapped # <<>> /\ IsDigit(mapped[1])
                    THEN <<"c", "_">> \o mapped
                    ELSE mapped
    /\ san_pc = "generated"
       => /\ \E k \in 1..Len(script) : script[k].kind = "create"
          /\ \E k \in 1..Len(script) : script[k].kind = "insert"
          /\ \A k \in 1..Len(script) :
                script[k].kind \in {"create", "insert"}
                => /\ script[k].columns = <<sanitized, IdKey>>
                   /\ \A j \in 1..Len(script[k].columns) :
                         IsSanitizedName(script[k].columns[j])

C7_Witness ==
    /\ san_pc = "generated"
    /\ column_name = <<"1", " ", ".">>
    /\ sanitized = <<"c", "_", "1", "_", "_">>
    /\ \E k \in 1..Len(script) :
          script[k].kind = "insert" /\ script[k].columns[1] = sanitized

(***************************************************************************)
(* SpecSql: SQLConverter.convert of a dataset whose rows differ in their   *)
(* keys and in the order of their keys, under batch sizes from 1 on and    *)
(* with batch insert switched off, into a file of an existing directory.   *)
(***************************************************************************)
NameCol == <<"n", "a", "m", "e">>

SqlRowPlain == << <<IdKey, PyInt(1)>>, <<NameCol, PyStr(<<"O", "'", "B">>)>> >>
\* a key the other rows do not have, and a key to sanitize
SqlRowOtherKey == << <<IdKey, PyInt(2)>>, <<<<"2", " ", "x">>, PyStr(<<"b">>)>> >>
\* the keys of SqlRowPlain in the other order
SqlRowReordered == << <<NameCol, PyDate(20230115)>>, <<IdKey, PyInt(3)>> >>
\* a null value
SqlRowNull == << <<IdKey, PyInt(4)>>, <<NameCol, PyNone>> >>

SqlRows == { SqlRowPlain, SqlRowOtherKey, SqlRowReordered, SqlRowNull }

SqlDatasets ==
    { [cls |-> "list", items |-> [i \in 1..Len(s) |-> DictElement(s[i])]] :
        s \in SeqsUpTo(SqlRows, MaxSqlRows) \ { <<>> } }

\* an unrecognized dialect; batch_size absent, 1, 2, 3; use_batch_insert off
SqlGenConfigs ==
    { SqlConfig(d, b[1], b[2], b[3], Absent) :
        d \in { Absent, "unknown" },
        b \in { <<FALSE, 0, TRUE>>, <<TRUE, 1, TRUE>>, <<TRUE, 2, TRUE>>,
                <<TRUE, 3, TRUE>>, <<FALSE, 0, FALSE>> } }

InitSql ==
    /\ IdleSan
    /\ IdleVal
    /\ IdleMain
    /\ converter = "sql"
    /\ config \in SqlGenConfigs
    /\ data \in SqlDatasets
    /\ output_path = [dirname |-> "out", basename |-> "data", scheme |-> ""]
    /\ pc = "call"
    /\ result = "none"
    /\ processed_data = <<>>
    /\ pending = <<>>
    /\ dirs = InitialDirs
    /\ file = NoFile
    /\ connected = FALSE
    /\ store = <<>>
    /\ io_log = <<>>

NextSql ==
    \/ Validate
    \/ Preprocess
    \/ Makedirs
    \/ Generate
    \/ Open
    \/ WriteChunk
    \/ CloseFile

SpecSql == InitSql /\ [][NextSql]_vars

(***************************************************************************)
(* Properties of the generated SQL script (SpecSql).                       *)
(***************************************************************************)
IsCreate(stmt) == stmt.kind = "create"

IsInsert(stmt) == stmt.kind = "insert"

\* the script is generated (it is pending, to be written) or is the file
\* of a call that returned True
ScriptGenerated == pc = "open" \/ (pc = "returned" /\ result = "True")

TheScript == IF pc = "open" THEN pending ELSE file.chunks

\* the first row of the dataset, its keys sanitized
FirstRowColumns ==
    [j \in 1..Len(data.items[1].item) |->
        SanitizeColumnName(data.items[1].item[j][1])]

ColumnIndex(columns, name) == CHOOSE j \in 1..Len(columns) : columns[j] = name

\* the id values of the VALUES tuples of a statement, in their order
TupleIds(stmt) ==
    [t \in 1..Len(stmt.tuples) |->
        stmt.tuples[t][ColumnIndex(stmt.columns, IdKey)]]

\* the id values of the rows of the dataset, as literals, in their order
RowIds ==
    [i \in 1..Len(data.items) |->
        IntStr(DictGet(data.items[i].item, IdKey).n)]

\* ceil(n / b)
CeilDiv(n, b) == (n + b - 1) \div b

\* C12: for n >= 1 rows and a batch size b >= 1 (100 when not configured),
\* batch mode emits ceil(n / b) INSERT statements, statement k with the
\* rows k b .. min((k + 1) b, n) - 1, so b tuples in every statement but
\* the last; with batch insert off it emits n INSERT statements of one
\* tuple.  In both modes there is one tuple a row, in dataset order.
C12_InsertStatementsPerBatch ==
    ScriptGenerated
    => LET inserts == SelectSeq(TheScript, IsInsert)
           n == Len(data.items)
           b == IF config.batch_size_set THEN config.batch_size ELSE 100
       IN  /\ IF config.use_batch_insert
              THEN /\ Len(inserts) = CeilDiv(n, b)
                   /\ \A k \in 0..(Len(inserts) - 1) :
                         /\ Len(inserts[k + 1].tuples) = Min((k + 1) * b, n) - k * b
                         /\ k < Len(inserts) - 1
                            => Len(inserts[k + 1].tuples) = b
                         /\ TupleIds(inserts[k + 1]) =
                               SubSeq(RowIds, k * b + 1, Min((k + 1) * b, n))
              ELSE /\ Len(inserts) = n
                   /\ \A k \in 1..n : Len(inserts[k].tuples) = 1
           /\ RowsWritten(TheScript) = n
           /\ Concat([k \in 1..Len(inserts) |-> TupleIds(inserts[k])]) = RowIds

\* three rows in batches of two: a statement of two tuples, then one of one
C12_Witness ==
    /\ pc = "returned"
    /\ result = "True"
    /\ config.use_batch_insert
    /\ config.batch_size_set
    /\ config.batch_size = 2
    /\ Len(data.items) = 3
    /\ data.items[1].item # data.items[2].item
    /\ data.items[2].item # data.items[3].item
    /\ LET inserts == SelectSeq(file.chunks, IsInsert)
       IN  /\ Len(inserts) = 2
           /\ Len(inserts[1].tuples) = 2
           /\ Len(inserts[2].tuples) = 1

\* the values of a row, each formatted, in the order of the row's own keys
OwnTuple(item, target_dialect) ==
    [j \in 1..Len(item) |-> FormatSqlValue(item[j][2], target_dialect)]

\* the VALUES tuples of the script, in their order
AllTuples(sql) ==
    LET inserts == SelectSeq(sql, IsInsert)
    IN  Concat([k \in 1..Len(inserts) |-> inserts[k].tuples])

\* C13: in batch mode and in non-batch mode alike, the VALUES tuple of a
\* row holds the row's own values, formatted, in the order of the row's
\* own keys, whatever the keys of the first row of the dataset or of the
\* chunk are.
C13_OwnValuesOwnOrder ==
    ScriptGenerated
    => LET tuples == AllTuples(TheScript)
       IN  /\ Len(tuples) = Len(data.items)
           /\ \A i \in 1..Len(data.items) :
                 tuples[i] = OwnTuple(data.items[i].item,
                                      TargetDialect(config.dialect))

\* C13 holds with batch insert off, and in batch mode for the rows that
\* have the keys of the first row of their chunk in the same order
C13_ExceptBatchOfOtherKeys ==
    ScriptGenerated
    => LET tuples == AllTuples(TheScript)
           b == BatchSizeOf(config)
       IN  /\ Len(tuples) = Len(data.items)
           /\ \A i \in 1..Len(data.items) :
                 LET lead == IF config.use_batch_insert
                             THEN ((i - 1) \div b) * b + 1 ELSE i
                 IN  KeysOf(data.items[i].item) = KeysOf(data.items[lead].item)
                     => tuples[i] = OwnTuple(data.items[i].item,
                                             TargetDialect(config.dialect))

\* the second row of a chunk has a key the first row lacks: its value is
\* left out and NULL stands in the place of the key it lacks
C13_BatchDropsValue ==
    /\ pc = "returned"
    /\ result = "True"
    /\ config.use_batch_insert
    /\ Len(data.items) = 2
    /\ data.items[1].item = SqlRowPlain
    /\ data.items[2].item = SqlRowOtherKey
    /\ AllTuples(file.chunks)[2] = << <<"2">>, <<"N", "U", "L", "L">> >>

(***************************************************************************)
(* Properties of _format_sql_value under every dialect (SpecVal).          *)
(***************************************************************************)
NullLiteral == <<"N", "U", "L", "L">>

MongoRowDot == << <<IdKey, PyInt(1)>>, <<<<"a", ".", "b">>, PyStr(<<"x">>)>> >>
\* keys that begin with a digit, one of them with a null value
MongoRowDigit ==
    << <<<<"2", "x">>, PyNone>>, <<<<"3", "y">>, PyInt(2)>> >>
\* a key that begins with a digit and has a dot; a date value
MongoRowDigitDot == << <<<<"2", ".", "c">>, PyDate(20230115)>> >>
\* a Decimal, bytes that are not UTF-8 and a date-time
MongoRowValues ==
    << <<IdKey, PyDecimal(999, 2)>>, <<<<"r", "a", "w">>, PyBytes(<<97, 255>>)>>,
       <<<<"a", "t">>, PyDatetime(20230115, 103000)>> >>

MongoRows == { MongoRowDot, MongoRowDigit, MongoRowDigitDot, MongoRowValues }

MongoDatasets ==
    { [cls |-> "list", items |-> [i \in 1..Len(s) |-> DictElement(s[i])]] :
        s \in SeqsUpTo(MongoRows, MaxRows) \ { <<>> } }

\* a dataset of n records {"id": i}
Records(n) ==
    [cls |-> "list",
     items |-> [i \in 1..n |-> DictElement(<< <<IdKey, PyInt(i)>> >>)]]

\* the sizes at the threshold, just over it, and at and just over a
\* multiple of the batch size
LargeSizes ==
    { BatchThreshold, BatchThreshold + 1, 3 * MongoBatchSize,
      3 * MongoBatchSize + 1 }

\* a file of an existing directory, a file of a missing one, the MongoDB
\* URI, and a URI of another scheme (a path for startswith('mongodb://'))
FileSink == [dirname |-> "out", basename |-> "data", scheme |-> ""]

MongoUri ==
    [dirname |-> "mongodb://localhost:27017", basename |-> "", scheme |-> "mongodb"]

MongoSinks ==
    { FileSink,
      [dirname |-> "new", basename |-> "data", scheme |-> ""],
      MongoUri,
      [dirname |-> "mongodb+srv://cluster0.example.net", basename |-> "db",
       scheme |-> "mongodb+srv"] }

InitMongo ==
    /\ IdleSan
    /\ IdleVal
    /\ IdleMain
    /\ converter = "mongodb"
    /\ \/ /\ data \in MongoDatasets
          /\ output_path \in MongoSinks
          /\ config \in ConfigsOf("mongodb")
       \/ /\ data \in { Records(n) : n \in LargeSizes }
          /\ output_path = MongoUri
          /\ config = DefaultConfig
    /\ pc = "call"
    /\ result = "none"
    /\ processed_data = <<>>
    /\ pending = <<>>
    /\ dirs = InitialDirs
    /\ file \in (IF output_path.dirname \in InitialDirs
                 THEN { NoFile, OldFile } ELSE { NoFile })
    /\ connected = FALSE
    /\ store = <<>>
    /\ io_log = <<>>

NextMongo ==
    \/ Validate
    \/ Preprocess
    \/ Makedirs
    \/ Open
    \/ WriteChunk
    \/ CloseFile
    \/ Connect
    \/ InsertBatch
    \/ InsertDone

SpecMongo == InitMongo /\ [][NextMongo]_vars

(***************************************************************************)
(* Properties of the MongoDB converter (SpecMongo).                        *)
(***************************************************************************)
\* the batches handed to insert_many so far and those still to be handed
Batches == store \o pending

\* the insert_many calls made so far
InsertCalls == Len(SelectSeq(io_log, LAMBDA c : c = "insert_many"))

\* C15: a dataset of n > 1000 records is inserted by ceil(n / 500) calls
\* of insert_many, call k with the records 500 k .. min(500 (k + 1), n) - 1
\* (1500 records: 500, 500, 500), a dataset of 1 <= n <= 1000 records by
\* one call with all of them.  The batches, one after the other, are the
\* preprocessed dataset; a call is made only when every call before it has
\* returned, and it hands over the next batch.
C15_BulkInsertBatches ==
    /\ [](pc = "insert"
          => LET n == Len(processed_data)
             IN  /\ n = Len(data.items)
                 /\ Len(Batches) = IF n > 1000 THEN CeilDiv(n, 500) ELSE 1
                 /\ \A k \in 0..(Len(Batches) - 1) :
                       Batches[k + 1] =
                          IF n > 1000
                          THEN SubSeq(processed_data, 500 * k + 1,
                                      Min(500 * (k + 1), n))
                          ELSE processed_data
                 /\ Concat(Batches) = processed_data
                 /\ n = 1500 => /\ Len(Batches) = 3
                                /\ \A k \in 1..3 : Len(Batches[k]) = 500
                 /\ InsertCalls = Len(store))
    /\ []((pc = "returned" /\ result = "True" /\ StartsWithMongodb(output_path))
          => /\ Concat(store) = processed_data
             /\ InsertCalls = Len(store))
    /\ [][store' # store
          => /\ pc = "insert"
             /\ store' = Append(store, Head(pending))
             /\ pending' = Tail(pending)
             /\ InsertCalls' = InsertCalls + 1]_vars

\* 1501 records went to the store in batches of 500, 500, 500 and 1
C15_Witness ==
    /\ pc = "returned"
    /\ result = "True"
    /\ Len(data.items) = 3 * MongoBatchSize + 1
    /\ Len(store) = 4
    /\ Len(store[1]) = 500
    /\ Len(store[3]) = 500
    /\ Len(store[4]) = 1
    /\ store[4][1] = << <<IdKey, PyInt(1501)>> >>

\* a key the store accepts: it does not begin with a digit and has no dot
IsStoreKey(key) ==
    /\ key = <<>> \/ ~IsDigit(key[1])
    /\ Count(key, ".") = 0

\* C16: after preprocessing, no row handed to the file writer or to
\* insert_many has a key that begins with a digit or contains a dot,
\* whatever the value under the key is (null too) and also for a key that
\* both begins with a digit and contains a dot.
C16_StoreKeysSanitized ==
    \A i \in 1..Len(processed_data) :
        \A j \in 1..Len(processed_data[i]) :
            IsStoreKey(processed_data[i][j][1])

\* it holds for the keys with a value other than null that do not both
\* begin with a digit and contain a dot
C16_ExceptNullAndDigitDot ==
    \A i \in 1..Len(processed_data) :
        LET item == data.items[i].item
        IN  \A j \in 1..Len(item) :
               (/\ item[j][2] # PyNone
                /\ ~(IsDigit(item[j][1][1]) /\ Count(item[j][1], ".") > 0))
               => \E k \in 1..Len(processed_data[i]) :
                     /\ processed_data[i][k][2] = item[j][2]
                     /\ IsStoreKey(processed_data[i][k][1])
                     /\ Len(processed_data[i][k][1])
                           = Len(item[j][1])
                             + (IF IsDigit(item[j][1][1]) THEN 1 ELSE 0)

\* the key 2x of a null value reaches the store as it is, the key 2.c
\* as _2.c
C16_UnsanitizedKeysInserted ==
    /\ pc = "returned"
    /\ result = "True"
    /\ StartsWithMongodb(output_path)
    /\ Len(store) = 1
    /\ Len(store[1]) = 2
    /\ store[1][1][1][1] = <<"2", "x">>
    /\ store[1][2][1][1] = <<"_", "2", ".", "c">>

\* the calls made on the file system
FileCalls ==
    Len(SelectSeq(io_log,
                  LAMBDA c : c \in {"makedirs", "open", "write", "close"}))

\* the call has neither created a directory nor created or written a file
NoFileTouched ==
    /\ FileCalls = 0
    /\ dirs = InitialDirs
    /\ file \in {NoFile, OldFile}

\* the call has opened no connection and inserted nothing
NoStoreTouched ==
    /\ ~connected
    /\ store = <<>>
    /\ InsertCalls = 0

\* C17 as it is stated: a sink with a scheme:// prefix goes to the bulk
\* insert and touches no file, every other sink is a file path and opens
\* no connection.
C17_SchemePrefixSelectsSink ==
    IF HasSchemePrefix(output_path) THEN NoFileTouched ELSE NoStoreTouched

\* C17: each call runs one of the two sink modes, chosen by the sink alone:
\* a sink that starts with mongodb:// goes to the bulk insert and neither
\* creates nor writes a file; every other sink, a URI of another scheme
\* such as mongodb+srv:// too, is a file path, written as one JSON file,
\* and opens no connection to the store.
C17_MongodbPrefixSelectsSink ==
    /\ IF output_path.scheme = "mongodb" THEN NoFileTouched ELSE NoStoreTouched
    /\ NoFileTouched \/ NoStoreTouched
    /\ (pc = "returned" /\ result = "True")
       => IF output_path.scheme = "mongodb"
          THEN connected /\ InsertCalls > 0
          ELSE /\ file.exists
               /\ file.complete
               /\ Len(file.chunks) = Len(data.items)
               /\ \A k \in 1..Len(file.chunks) : file.chunks[k].kind = "row"

\* the sink mongodb+srv://cluster0.example.net/db was written as a file
C17_Witness ==
    /\ pc = "returned"
    /\ result = "True"
    /\ output_path.scheme = "mongodb+srv"
    /\ output_path.dirname \in dirs
    /\ file.exists
    /\ file.complete
    /\ ~connected

\* a value of a class the normalization of the MongoDB converter replaces
IsRaw(v) == v.t \in {"datetime", "date", "bytes", "Decimal"}

\* the JSON text a date document opens with: {"$date": "
DateDocument == <<"{", "\"", "$", "d", "a", "t", "e", "\"", ":", " ", "\"">>

\* the file holds every date and date-time as {"$date": <ISO-8601>}, every
\* bytes value as {"$binary": <hex>, "$type": "00"} and every Decimal as a
\* float
C18_FileModeNormalized ==
    \A k \in 1..Len(file.chunks) :
        file.chunks[k].kind = "row"
        => \A j \in 1..Len(file.chunks[k].tuples[1]) :
              LET v == processed_data[k][j][2]
                  text == file.chunks[k].tuples[1][j]
              IN  /\ v.t \in {"datetime", "date"}
                     => text = DateDocument \o IsoFormat(v) \o <<"\"", "}">>
                  /\ v = PyBytes(<<97, 255>>)
                     => text = <<"{", "\"", "$", "b", "i", "n", "a", "r", "y",
                                 "\"", ":", " ", "\"", "6", "1", "f", "f", "\"",
                                 ",", " ", "\"", "$", "t", "y", "p", "e", "\"",
                                 ":", " ", "\"", "0", "0", "\"", "}">>
                  /\ v = PyDecimal(999, 2) => text = <<"9", ".", "9", "9">>

\* C18: the normalization reaches every value in file mode and in
\* connection-string mode alike: no raw date, date-time, bytes or Decimal
\* value is written to the file or handed to insert_many.
C18_NormalizedAtSink ==
    /\ C18_FileModeNormalized
    /\ \A k \in 1..Len(Batches) :
          pc \in {"insert", "returned"}
          => \A i \in 1..Len(Batches[k]) :
                \A j \in 1..Len(Batches[k][i]) : ~IsRaw(Batches[k][i][j][2])

\* insert_many was handed a Decimal, bytes and a date-time as they are
C18_RawValuesInserted ==
    /\ pc = "returned"
    /\ result = "True"
    /\ StartsWithMongodb(output_path)
    /\ Len(store) = 1
    /\ store[1] = << MongoRowValues >>

(***************************************************************************)
(* Properties of convert() of the four converters (Spec).                  *)
(***************************************************************************)
\* the column list of the statement of each VALUES tuple, in their order
AllTupleColumns(sql) ==
    LET inserts == SelectSeq(sql, IsInsert)
    IN  Concat([k \in 1..Len(inserts) |->
                  [t \in 1..Len(inserts[k].tuples) |-> inserts[k].columns]])

\* row i has the key with the value in the place of its null
HasNullAs(item, key, null) == HasKey(item, key) /\ DictGet(item, key) = null

\* the tuple of row i has NULL in the position of the column
RendersNull(sql, i, column) ==
    /\ Len(AllTuples(sql)) = Len(data.items)
    /\ \E p \in 1..Len(AllTupleColumns(sql)[i]) :
          /\ AllTupleColumns(sql)[i][p] = column
          /\ AllTuples(sql)[i][p] = NullLiteral

\* the null under key of row i is kept by the preprocessing and reaches
\* the sink
NullKept(i, key) ==
    CASE converter = "json" ->
            /\ HasNullAs(processed_data[i], key, PyNone)
            /\ (pc = "returned" /\ result = "True")
               => file.chunks[i].tuples[1][ColumnIndex(file.chunks[i].columns, key)]
                     = <<"n", "u", "l", "l">>
      [] converter = "mongodb" ->
            \/ HasNullAs(processed_data[i], key, PyNone)
            \/ HasNullAs(processed_data[i], MongoNewKey(key), PyNone)
      [] converter = "csv" ->
            /\ HasNullAs(processed_data[i], key, PyStr(<<>>))
            /\ (pc = "returned" /\ result = "True")
               => file.chunks[i + 1].tuples[1][
                     ColumnIndex(file.chunks[i + 1].columns, key)] = <<>>
      [] converter = "sql" ->
            /\ HasNullAs(processed_data[i], SanitizeColumnName(key), PyNone)
            /\ ScriptGenerated
               => RendersNull(TheScript, i, SanitizeColumnName(key))
      [] OTHER -> FALSE

NullsKept ==
    \A i \in 1..Len(processed_data) :
        LET item == data.items[i].item
        IN  /\ Len(processed_data[i]) >= Len(item)
            /\ \A j \in 1..Len(item) :
                  item[j][2] = PyNone => NullKept(i, item[j][1])

\* C19: a key with a null value is kept, under the same key as sanitized,
\* with the null of the format: null in the processed row of the JSON and
\* the MongoDB converter, the empty string in that of the CSV converter,
\* the literal NULL in the column's position in the SQL script; no row
\* loses a key for its null.
C19_NullKeptAsNull == NullsKept

\* it holds for the JSON, the CSV and the MongoDB converter and for the
\* SQL converter with batch insert off
C19_ExceptBatchInsert ==
    (converter = "sql" /\ UseBatchInsert(config)) \/ NullsKept

\* a null of the second row under a key the first row of the chunk lacks:
\* the script has no NULL for it
C19_NullDroppedByBatch ==
    /\ pc = "returned"
    /\ result = "True"
    /\ converter = "sql"
    /\ BatchSizeOf(config) >= 2
    /\ Len(data.items) = 2
    /\ data.items[1].item = RowEmptyKey
    /\ data.items[2].item = RowNull
    /\ AllTupleColumns(file.chunks)[2] = << <<>> >>

FileUntouched == file \in {NoFile, OldFile}

\* the file at the sink path holds the complete document of the dataset
FileComplete ==
    /\ file.exists
    /\ file.complete
    /\ RowsWritten(file.chunks) = Len(data.items)

\* C21: the JSON converter writes all or nothing: when convert() fails after
\* the validation, at a value that cannot be encoded or at the write, the
\* sink path holds no truncated or partial document; it holds the complete
\* document or what it held before the call.
C21_JsonAllOrNothing ==
    (/\ converter = "json"
     /\ pc = "returned"
     /\ result = "False"
     /\ ~InvalidDataset(data))
    => FileUntouched \/ FileComplete

\* the second row has bytes that cannot be decoded: the old content is
\* gone and the file holds the first row only
C21_PartialDocumentLeft ==
    /\ converter = "json"
    /\ pc = "returned"
    /\ result = "False"
    /\ Len(data.items) = 2
    /\ data.items[1].item = RowPlain
    /\ data.items[2].item = RowBytes
    /\ file.exists
    /\ ~file.complete
    /\ Len(file.chunks) = 1
    /\ Head(pending).kind = "unencodable"

\* the chunks of the file of the call, written and still to write
FileChunks == file.chunks \o pending

\* the file is being written or was written
Writing == pc = "write" \/ (pc = "returned" /\ result = "True")

\* the chunk of row i: the CSV file has its header first
ChunkOfRow(i) == IF converter = "csv" THEN FileChunks[i + 1] ELSE FileChunks[i]

\* every bytes value of the dataset is in the file as its hexadecimal text
BytesAsHex ==
    \A i \in 1..Len(data.items) :
        \A j \in 1..Len(data.items[i].item) :
            LET key == data.items[i].item[j][1]
                v == data.items[i].item[j][2]
                chunk == ChunkOfRow(i)
            IN  v.t = "bytes"
                => /\ chunk.kind = "row"
                   /\ chunk.tuples[1][ColumnIndex(chunk.columns, key)]
                         = IF converter = "csv" THEN Hex(v.b)
                           ELSE <<"\"">> \o Hex(v.b) \o <<"\"">>

\* C22: the JSON and the CSV converter render a bytes value as its
\* hexadecimal text, whatever the bytes are (not UTF-8 too), and no bytes
\* value makes the conversion fail.
C22_BytesRenderedAsHex ==
    (converter \in {"json", "csv"} /\ Writing) => BytesAsHex

\* the CSV converter does
C22_CsvBytesAsHex ==
    (converter = "csv" /\ Writing) => BytesAsHex

\* the bytes ff are in the CSV file as ff
C22_CsvHexWritten ==
    /\ converter = "csv"
    /\ pc = "returned"
    /\ result = "True"
    /\ Len(data.items) = 1
    /\ data.items[1].item = RowBytes
    /\ file.chunks[2].tuples[1][2] = <<"f", "f">>

(***************************************************************************)
(* SpecJson: JsonConverter.convert of datasets with values of every class  *)
(* into a file, and json.load of the file it wrote.                        *)
(***************************************************************************)
JsonRowA == << <<IdKey, PyInt(1)>>, <<NameCol, PyStr(<<"A">>)>> >>

JsonRowB == << <<IdKey, PyInt(2)>>, <<NameCol, PyStr(<<"B">>)>> >>

\* the keys in the other order, a negative integer, a text to escape
JsonRowEscapes ==
    { << <<NameCol, PyStr(s)>>, <<IdKey, PyInt(0 - 7)>> >> :
        s \in { <<"\\", "\"">>, <<"'", "a">>, <<>> } }

JsonRowNatives ==
    << <<<<"o", "k">>, PyBool(TRUE)>>, <<<<"n", "o">>, PyBool(FALSE)>>,
       <<<<"x">>, PyNone>>, <<<<"f">>, PyFloat(<<"1", ".", "5">>)>> >>

\* a date-time, a date, a Decimal, bytes that are UTF-8, a list
JsonRowOthers ==
    << <<<<"a", "t">>, PyDatetime(20230115, 103000)>>,
       <<<<"o", "n">>, PyDate(20230115)>>,
       <<<<"s", "u", "m">>, PyDecimal(999, 2)>>,
       <<<<"r", "a", "w">>, PyBytes(<<97, 49>>)>>,
       <<<<"l">>, PyList(<< <<"a">> >>)>> >>

JsonRows ==
    { JsonRowA, JsonRowB, JsonRowNatives, JsonRowOthers } \cup JsonRowEscapes

JsonDatasets ==
    { [cls |-> "list", items |-> [i \in 1..Len(s) |-> DictElement(s[i])]] :
        s \in SeqsUpTo(JsonRows, MaxRows) \ { <<>> } }

InitJson ==
    /\ IdleSan
    /\ IdleVal
    /\ IdleMain
    /\ converter = "json"
    /\ config = DefaultConfig
    /\ data \in JsonDatasets
    /\ output_path = FileSink
    /\ pc = "call"
    /\ result = "none"
    /\ processed_data = <<>>
    /\ pending = <<>>
    /\ dirs = InitialDirs
    /\ file \in { NoFile, OldFile }
    /\ connected = FALSE
    /\ store = <<>>
    /\ io_log = <<>>

NextJson ==
    \/ Validate
    \/ Preprocess
    \/ Makedirs
    \/ Open
    \/ WriteChunk
    \/ CloseFile

SpecJson == InitJson /\ [][NextJson]_vars

(***************************************************************************)
(* json.load of the values of the file.                                    *)
(***************************************************************************)
DigitValue(c) == CHOOSE d \in 0..9 : Digits[d + 1] = c

RECURSIVE ParseNat(_)
ParseNat(text) ==
    IF text = <<>> THEN 0
    ELSE 10 * ParseNat(SubSeq(text, 1, Len(text) - 1))
         + DigitValue(text[Len(text)])

\* the text of a JSON string without its escapes
RECURSIVE Unescape(_)
Unescape(text) ==
    IF text = <<>> THEN <<>>
    ELSE IF text[1] = "\\" /\ Len(text) >= 2
    THEN <<text[2]>> \o Unescape(SubSeq(text, 3, Len(text)))
    ELSE <<text[1]>> \o Unescape(Tail(text))

\* json.loads of the text of a scalar
JsonLoads(text) ==
    IF text = <<"n", "u", "l", "l">> THEN PyNone
    ELSE IF text = <<"t", "r", "u", "e">> THEN PyBool(TRUE)
    ELSE IF text = <<"f", "a", "l", "s", "e">> THEN PyBool(FALSE)
    ELSE IF text[1] = "\""
    THEN PyStr(Unescape(SubSeq(text, 2, Len(text) - 1)))
    ELSE IF Count(text, ".") > 0 THEN PyFloat(text)
    ELSE IF text[1] = "-" THEN PyInt(0 - ParseNat(Tail(text)))
    ELSE PyInt(ParseNat(text))

IsHeader(chunk) == chunk.kind = "header"

\* the file has one header, first, and then one line a row of the dataset,
\* in the order of the rows, each with one cell a column of the header,
\* the cell of a key the row lacks being empty
CsvLinesPerRow ==
    /\ Len(FileChunks) = Len(data.items) + 1
    /\ IsHeader(FileChunks[1])
    /\ Len(SelectSeq(FileChunks, IsHeader)) = 1
    /\ \A i \in 1..Len(data.items) :
          LET item == data.items[i].item
              line == FileChunks[i + 1]
          IN  /\ line.kind = "row"
              /\ Len(line.tuples) = 1
              /\ Len(line.tuples[1]) = Len(FileChunks[1].columns)
              /\ \A c \in 1..Len(FileChunks[1].columns) :
                    line.tuples[1][c] =
                       IF HasKey(item, FileChunks[1].columns[c])
                       THEN CellText(processed_data, FileChunks[1].columns[c],
                                     CsvProcessValue(
                                        DictGet(item, FileChunks[1].columns[c])))
                       ELSE <<>>

\* C24: the CSV conversion of a non-empty dataset goes through also when
\* later rows have other keys than the first row, and the file has one
\* header, with exactly the keys of the first row in their order, and then
\* one line a row; a key only later rows have adds no column, a key a
\* later row lacks leaves its cell empty.
C24_CsvHeaderFromFirstRow ==
    (converter = "csv" /\ ~InvalidDataset(data))
    => /\ pc = "returned" /\ result = "False" => io_log # <<>>
       /\ Writing
          => /\ CsvLinesPerRow
             /\ FileChunks[1].columns = KeysOf(data.items[1].item)

\* all of it but the header: the header has the keys of all the rows, in
\* the order in which they first occur
C24_ExceptHeaderOfAllKeys ==
    (converter = "csv" /\ ~InvalidDataset(data))
    => /\ pc = "returned" /\ result = "False" => io_log # <<>>
       /\ Writing
          => /\ CsvLinesPerRow
             /\ \A c \in 1..Len(FileChunks[1].columns) :
                   \E i \in 1..Len(data.items) :
                      HasKey(data.items[i].item, FileChunks[1].columns[c])
             /\ SubSeq(FileChunks[1].columns, 1, Len(data.items[1].item))
                   = KeysOf(data.items[1].item)

\* the key 2x of the second row is a third column of the header
C24_LaterKeyAddsColumn ==
    /\ converter = "csv"
    /\ pc = "returned"
    /\ result = "True"
    /\ Len(data.items) = 2
    /\ data.items[1].item = RowPlain
    /\ data.items[2].item = RowNull
    /\ file.chunks[1].columns = <<IdKey, NameKey, <<"2", "x">>>>
    /\ file.chunks[2].tuples[1][3] = <<>>

\* the sink is a file path and the dataset passes the validation
FileSinkCall == output_path.scheme = "" /\ ~InvalidDataset(data)

\* C25: for a file sink and a valid dataset, convert() has the parent
\* directory in place before it writes, the step that ensures it does not
\* fail when the directory is there already or when the path is a bare
\* file name (the parent being the current directory), and a directory
\* that is missing is there once the step is done.
C25_ParentEnsuredBeforeWriting ==
    /\ []((FileSinkCall /\ (pc \in {"open", "write"} \/ result = "True"))
          => (output_path.dirname = "" \/ output_path.dirname \in dirs))
    /\ [][(/\ FileSinkCall
           /\ pc = "makedirs"
           /\ output_path.dirname \in dirs \cup { "" })
          => pc' # "returned"]_vars

\* it does when the path has a directory component
C25_ExceptBareFileName ==
    /\ []((FileSinkCall /\ (pc \in {"open", "write"} \/ result = "True"))
          => output_path.dirname \in dirs)
    /\ [][(FileSinkCall /\ pc = "makedirs" /\ output_path.dirname \in dirs)
          => pc' # "returned"]_vars

\* data.json in the current directory: the call fails at os.makedirs('')
\* and no file is opened
C25_BareFileNameFails ==
    /\ FileSinkCall
    /\ output_path.dirname = ""
    /\ pc = "returned"
    /\ result = "False"
    /\ io_log = <<"makedirs">>
    /\ file = NoFile

\* an insert_many call was rejected: one more call than batches stored
BatchRejected == InsertCalls > Len(store)

C26_RejectedBatchAborts ==
    (StartsWithMongodb(output_path) /\ BatchRejected)
        => /\ pc = "returned"
           /\ result = "False"
           /\ InsertCalls = Len(store) + 1
           /\ pending # <<>>

\* the second batch of three is rejected: the first one stays inserted
C26_EarlierBatchesKept ==
    /\ StartsWithMongodb(output_path)
    /\ BatchRejected
    /\ result = "False"
    /\ Len(store) = 1
    /\ Len(pending) = 2
    /\ Len(store[1]) = MongoBatchSize


(***************************************************************************)
(* SpecMain: main() of the command line, from the connection to            *)
(* PostgreSQL to the end of the process, with the convert() call it makes. *)
(***************************************************************************)
\* args.format or config['output']['default_format']: argparse admits the
\* four formats only, the configuration file any text
Formats == { "json", "mongodb", "csv", "sql", "xml" }

\* what execute_query returns: a list of dict rows, possibly empty
QueryResults ==
    { [cls |-> "list", items |-> s] :
        s \in SeqsUpTo({ DictElement(r) : r \in {RowPlain, RowNull, RowBytes} },
                       MaxRows) }

InitMain ==
    /\ IdleSan
    /\ IdleVal
    /\ converter = "none"
    /\ config = DefaultConfig
    /\ data = [cls |-> "NoneType", items |-> <<>>]
    /\ output_path = [dirname |-> "", basename |-> "", scheme |-> ""]
    /\ pc = "idle"
    /\ result = "none"
    /\ processed_data = <<>>
    /\ pending = <<>>
    /\ dirs = InitialDirs
    /\ file = NoFile
    /\ connected = FALSE
    /\ store = <<>>
    /\ io_log = <<>>
    /\ main_pc = "connect"
    /\ main_log = <<"Starting PostgreSQL Data Format Converter">>
    /\ query_to_execute = "None"
    /\ exit_status = "running"

\* logging.error(message); sys.exit(1), and sys.exit(0)
Exit(messages, status) ==
    /\ main_log' = main_log \o messages
    /\ main_pc' = "exited"
    /\ exit_status' = status

\* pg_connector = PostgreSQLConnector(config['postgresql'])
MainConnect ==
    /\ main_pc = "connect"
    /\ \/ /\ main_log' = Append(main_log, "Successfully connected to PostgreSQL database")
          /\ main_pc' = "select"
          /\ UNCHANGED exit_status
       \/ Exit(<<"Failed to connect to PostgreSQL">>, "1")
    /\ UNCHANGED <<convertVars, sanVars, valVars, query_to_execute>>

\* the table, format and query of the command line, or of the interactive
\* mode when neither a query nor a table is given
MainSelect ==
    /\ main_pc = "select"
    /\ \E table \in { "None", "t" }, format_type \in Formats,
          query \in { "None", "q" } :
         IF query = "None" /\ table = "None"
         THEN \/ \E selected_format \in Formats \ { "xml" } :
                   /\ converter' = selected_format
                   /\ query_to_execute' = "SELECT * FROM public.t;"
                   /\ main_pc' = "get_converter"
                   /\ UNCHANGED <<main_log, exit_status>>
              \/ /\ Exit(<<"Interactive mode exited by user or no selection made.">>,
                         "0")
                 /\ UNCHANGED <<converter, query_to_execute>>
         ELSE /\ converter' = format_type
              /\ query_to_execute' = query
              /\ main_pc' = "get_converter"
              /\ UNCHANGED <<main_log, exit_status>>
    /\ UNCHANGED <<config, data, output_path, pc, result, processed_data,
                   pending, dirs, file, connected, store, io_log, sanVars,
                   valVars>>

\* converter = get_converter(format_type, config)
MainGetConverter ==
    /\ main_pc = "get_converter"
    /\ IF converter \notin { "json", "mongodb", "csv", "sql" }
       THEN /\ Exit(<<"Output format", "Unsupported format">>, "1")
            /\ UNCHANGED config
       ELSE /\ config' \in ConfigsOf(converter)
            /\ main_log' = Append(main_log, "Output format")
            /\ main_pc' = "extract"
            /\ UNCHANGED exit_status
    /\ UNCHANGED <<converter, data, output_path, pc, result, processed_data,
                   pending, dirs, file, connected, store, io_log, sanVars,
                   valVars, query_to_execute>>

\* data = pg_connector.execute_query(query_to_execute)
MainExtract ==
    /\ main_pc = "extract"
    /\ IF query_to_execute = "None"
       THEN /\ Exit(<<"No query or table specified, and interactive mode did not yield a selection.">>,
                    "1")
            /\ UNCHANGED data
       ELSE \/ /\ data' \in QueryResults
               /\ main_log' = main_log \o <<"Executing custom query",
                                            "Successfully extracted records">>
               /\ main_pc' = "makedirs"
               /\ UNCHANGED exit_status
            \/ /\ Exit(<<"Executing custom query",
                         "Failed to extract data. Query might have failed or returned no result.">>,
                       "1")
               /\ UNCHANGED data
            \/ /\ Exit(<<"Executing custom query", "Data extraction failed">>,
                       "1")
               /\ UNCHANGED data
    /\ UNCHANGED <<converter, config, output_path, pc, result, processed_data,
                   pending, dirs, file, connected, store, io_log, sanVars,
                   valVars, query_to_execute>>

\* output_path = args.output or the default of the configuration;
\* os.makedirs(os.path.dirname(output_path), exist_ok=True); then
\* converter.convert(data, output_path) is called
MainMakedirs ==
    /\ main_pc = "makedirs"
    /\ \E path \in Sinks :
         /\ output_path' = path
         /\ \/ /\ path.dirname # ""
               /\ dirs' = dirs \cup { path.dirname }
               /\ file' \in (IF path.basename # "" /\ path.dirname \in dirs
                             THEN { NoFile, OldFile } ELSE { NoFile })
               /\ main_log' = Append(main_log, "Converting data")
               /\ main_pc' = "convert"
               /\ pc' = "call"
               /\ UNCHANGED exit_status
            \/ /\ Exit(<<"Conversion failed">>, "1")
               /\ UNCHANGED <<dirs, file, pc>>
    /\ UNCHANGED <<converter, config, data, result, processed_data, pending,
                   connected, store, io_log, sanVars, valVars,
                   query_to_execute>>

\* convert() has returned: its value is dropped, the two messages are
\* logged and main() returns
MainAfterConvert ==
    /\ main_pc = "convert"
    /\ pc = "returned"
    /\ main_log' = main_log \o <<"Data successfully converted and saved",
                                 "Conversion process completed successfully">>
    /\ main_pc' = "exited"
    /\ exit_status' = "0"
    /\ UNCHANGED <<convertVars, sanVars, valVars, query_to_execute>>

NextMain ==
    \/ MainConnect
    \/ MainSelect
    \/ MainGetConverter
    \/ MainExtract
    \/ MainMakedirs
    \/ MainAfterConvert
    \/ Validate
    \/ Preprocess
    \/ Makedirs
    \/ Generate
    \/ Open
    \/ WriteChunk
    \/ CloseFile
    \/ Connect
    \/ InsertBatch
    \/ InsertDone

SpecMain == InitMain /\ [][NextMain]_vars

Logged(message) == \E i \in 1..Len(main_log) : main_log[i] = message

\* C27: main() makes a failed conversion observable: when convert()
\* returned False it does not log that the data was successfully converted
\* and the process ends with a non-zero exit status; the success messages
\* are logged only after convert() returned True.
C27_FailureObservable ==
    /\ (Logged("Data successfully converted and saved")
        \/ Logged("Conversion process completed successfully"))
           => (pc = "returned" /\ result = "True")
    /\ (main_pc = "exited" /\ result = "False") => exit_status # "0"

\* every other failure main() meets ends the process with status 1 and
\* without a success message
C27_OtherFailuresObservable ==
    (main_pc = "exited" /\ pc # "returned"
     /\ ~Logged("Interactive mode exited by user or no selection made."))
        => /\ exit_status = "1"
           /\ ~Logged("Data successfully converted and saved")
           /\ ~Logged("Conversion process completed successfully")

\* convert() returned False, both success messages are logged and the exit
\* status is 0
C27_FailureReportedAsSuccess ==
    /\ main_pc = "exited"
    /\ pc = "returned"
    /\ result = "False"
    /\ exit_status = "0"
    /\ Logged("Data successfully converted and saved")
    /\ Logged("Conversion process completed successfully")


\* convert() of the SQL converter with batch insert on returned True for a
\* dataset that passes the validation
BatchInsertSucceeded ==
    /\ converter = "sql"
    /\ UseBatchInsert(config)
    /\ ~InvalidDataset(data)
    /\ pc = "returned"
    /\ result = "True"

\* row i of the dataset stands in tuple i of the script and nowhere else
RowInOneTuple(sql, i) ==
    /\ i <= Len(AllTuples(sql))
    /\ LET columns == AllTupleColumns(sql)[i]
       IN  \A j \in 1..Len(columns) :
              HasKey(processed_data[i], columns[j])
              => AllTuples(sql)[i][j]
                   = FormatSqlValue(DictGet(processed_data[i], columns[j]),
                                    TargetDialect(config.dialect))

\* C28: whatever the integer sql.batch_size is, zero and the negative ones
\* included, with batch insert on the SQL converter returns True only for
\* a script that has one VALUES tuple for every row of the dataset.
C28_NoRowsOmittedForAnyBatchSize ==
    BatchInsertSucceeded
    => /\ Len(AllTuples(file.chunks)) = Len(data.items)
       /\ \A i \in 1..Len(data.items) : RowInOneTuple(file.chunks, i)

\* it does for the positive sizes, and the size 0 makes the call return
\* False
C28_ExceptNegativeBatchSize ==
    /\ (BatchInsertSucceeded /\ BatchSizeOf(config) >= 0)
       => /\ Len(AllTuples(file.chunks)) = Len(data.items)
          /\ \A i \in 1..Len(data.items) : RowInOneTuple(file.chunks, i)
    /\ (converter = "sql" /\ UseBatchInsert(config) /\ BatchSizeOf(config) = 0
        /\ pc = "returned")
       => result = "False"

\* batch_size -1: True is returned for a script with the CREATE TABLE
\* statement and no INSERT statement
C28_NegativeBatchSizeOmitsRows ==
    /\ BatchInsertSucceeded
    /\ BatchSizeOf(config) < 0
    /\ Len(data.items) = 2
    /\ IsCreate(file.chunks[1])
    /\ SelectSeq(file.chunks, IsInsert) = <<>>


(***************************************************************************)
(* SpecKeys: the SQL and the MongoDB converter on one row of two or three  *)
(* keys, among them keys that the sanitization gives the same name.        *)
(***************************************************************************)
\* "a b", "a_b", "a.b", "ab", "2x", "c_2x" and "_2x"
KeyNames ==
    { <<"a", " ", "b">>, <<"a", "_", "b">>, <<"a", ".", "b">>, <<"a", "b">>,
      <<"2", "x">>, <<"c", "_", "2", "x">>, <<"_", "2", "x">> }

\* the rows {k1: 1, k2: 2} and {"id": 0, k1: 1, k2: 2} of two distinct keys
KeyRows ==
    { << <<k[1], PyInt(1)>>, <<k[2], PyInt(2)>> >> :
        k \in { p \in KeyNames \X KeyNames : p[1] # p[2] } }
    \cup { << <<IdKey, PyInt(0)>>, <<k[1], PyInt(1)>>, <<k[2], PyInt(2)>> >> :
             k \in { p \in KeyNames \X KeyNames : p[1] # p[2] } }

InitKeys ==
    /\ IdleSan
    /\ IdleVal
    /\ IdleMain
    /\ converter \in { "sql", "mongodb" }
    /\ config = DefaultConfig
    /\ data \in { [cls |-> "list", items |-> <<DictElement(r)>>] : r \in KeyRows }
    /\ output_path = FileSink
    /\ pc = "call"
    /\ result = "none"
    /\ processed_data = <<>>
    /\ pending = <<>>
    /\ dirs = InitialDirs
    /\ file = NoFile
    /\ connected = FALSE
    /\ store = <<>>
    /\ io_log = <<>>

NextKeys ==
    \/ Validate
    \/ Preprocess
    \/ Makedirs
    \/ Generate
    \/ Open
    \/ WriteChunk
    \/ CloseFile

SpecKeys == InitKeys /\ [][NextKeys]_vars

\* preprocess_data has returned
Preprocessed == Len(processed_data) = Len(data.items) /\ processed_data # <<>>

\* the names _process_item stores the keys of the row under
NewKeysOf(item) ==
    [j \in 1..Len(item) |->
        IF converter = "sql" THEN SanitizeColumnName(item[j][1])
        ELSE MongoNewKey(item[j][1])]

Distinct(names) ==
    \A i, j \in 1..Len(names) : names[i] = names[j] => i = j

\* C29: the sanitization of the keys loses no column: the preprocessed row
\* of the SQL converter and of the MongoDB converter has as many keys as
\* the input row, with the values in the same order, also when two keys of
\* the row sanitize to the same name.
C29_SanitizationKeepsEveryKey ==
    Preprocessed
    => \A i \in 1..Len(data.items) :
          /\ Len(processed_data[i]) = Len(data.items[i].item)
          /\ ValuesOf(processed_data[i]) = ValuesOf(data.items[i].item)

\* it does when the sanitized names of the row are distinct
C29_ExceptCollidingKeys ==
    Preprocessed
    => \A i \in 1..Len(data.items) :
          Distinct(NewKeysOf(data.items[i].item))
          => /\ Len(processed_data[i]) = Len(data.items[i].item)
             /\ ValuesOf(processed_data[i]) = ValuesOf(data.items[i].item)

\* {"a b": 1, "a_b": 2} is preprocessed to {"a_b": 2} by the SQL converter
C29_CollidingKeysMerged ==
    /\ converter = "sql"
    /\ Preprocessed
    /\ data.items[1].item
         = << <<<<"a", " ", "b">>, PyInt(1)>>, <<<<"a", "_", "b">>, PyInt(2)>> >>
    /\ processed_data[1] = << <<<<"a", "_", "b">>, PyInt(2)>> >>

\* {"a.b": 1, "a_b": 2} is preprocessed to {"a_b": 2} by the MongoDB
\* converter
C29_MongoCollidingKeysMerged ==
    /\ converter = "mongodb"
    /\ Preprocessed
    /\ data.items[1].item
         = << <<<<"a", ".", "b">>, PyInt(1)>>, <<<<"a", "_", "b">>, PyInt(2)>> >>
    /\ processed_data[1] = << <<<<"a", "_", "b">>, PyInt(2)>> >>


\* the columns the CREATE TABLE statement of the script declares
DeclaredColumns(sql) ==
    LET creates == SelectSeq(sql, IsCreate)
    IN  UNION { { creates[k].columns[j] : j \in 1..Len(creates[k].columns) } :
                  k \in 1..Len(creates) }

\* every tuple of every INSERT statement has one value for each column of
\* the statement's column list
TuplesFitColumnLists(sql) ==
    \A k \in 1..Len(sql) :
       IsInsert(sql[k])
       => \A t \in 1..Len(sql[k].tuples) :
             Len(sql[k].tuples[t]) = Len(sql[k].columns)

\* C30: the generated script is self-consistent for every valid dataset,
\* the datasets whose rows differ in their keys included: every column an
\* INSERT statement names is declared by the CREATE TABLE statement, and
\* every VALUES tuple has as many values as the column list of its
\* statement.
C30_ScriptSelfConsistent ==
    ScriptGenerated
    => /\ \A k \in 1..Len(TheScript) :
             IsInsert(TheScript[k])
             => \A j \in 1..Len(TheScript[k].columns) :
                   TheScript[k].columns[j] \in DeclaredColumns(TheScript)
       /\ TuplesFitColumnLists(TheScript)

\* the tuples fit the column lists, and the columns are declared when the
\* row the column list is taken from has keys of the first row only
C30_ExceptColumnsOfOtherKeys ==
    ScriptGenerated
    => /\ TuplesFitColumnLists(TheScript)
       /\ (\A i \in 1..Len(processed_data) :
              \A j \in 1..Len(processed_data[i]) :
                 HasKey(processed_data[1], processed_data[i][j][1]))
          => \A k \in 1..Len(TheScript) :
                IsInsert(TheScript[k])
                => \A j \in 1..Len(TheScript[k].columns) :
                      TheScript[k].columns[j] \in DeclaredColumns(TheScript)

\* the script of [{"id": 1, "name": ...}, {"id": 2, "2 x": "b"}] written
\* row by row: the second INSERT names c_2_x, which CREATE TABLE does not
\* declare
C30_UndeclaredColumnInserted ==
    /\ pc = "returned"
    /\ result = "True"
    /\ ~UseBatchInsert(config)
    /\ Len(data.items) = 2
    /\ data.items[1].item = SqlRowPlain
    /\ data.items[2].item = SqlRowOtherKey
    /\ <<"c", "_", "2", "_", "x">> \notin DeclaredColumns(file.chunks)
    /\ \E k \in 1..Len(file.chunks) :
          /\ IsInsert(file.chunks[k])
          /\ file.chunks[k].columns = <<IdKey, <<"c", "_", "2", "_", "x">>>>

=============================================================================
